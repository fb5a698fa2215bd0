----------------------------- MODULE CityBusTyping -----------------------------
(* Type correctness of the composed system, for every number of buses, offices *)
(* and passengers, every capacity and every set of events.                     *)
EXTENDS CityBusProperties, SequenceTheorems, WellFoundedInduction, NaturalsInduction,
        TLAPS

-----------------------------------------------------------------------------
(* Sums over the buses. The induction on their number is stated about a set of
   numbers, which the provers can take an instance of.                       *)
LEMMA SetInduction ==
    ASSUME NEW S, 0 \in S, \A n \in Nat : n \in S => n + 1 \in S
    PROVE  Nat \subseteq S
<1>1. IsWellFoundedOn(OpToRel(<, Nat), Nat)
  BY NatLessThanWellFounded, Zenon
<1> SUFFICES ASSUME Nat \ S # {} PROVE FALSE
  OBVIOUS
<1>2. PICK m \in Nat \ S : \A k \in Nat \ S : <<k, m>> \notin OpToRel(<, Nat)
  BY <1>1, WFMin, Zenon
<1>3. m - 1 \in Nat /\ m - 1 < m
  OBVIOUS
<1>4. <<m - 1, m>> \in OpToRel(<, Nat)
  BY <1>3, Zenon DEF OpToRel
<1>5. m - 1 \in S
  BY <1>2, <1>3, <1>4, Zenon
<1> QED
  BY <1>3, <1>5

(* s[k] is the sum of w over the first k buses.                                *)
RunningSum(s, w, N) == s = [k \in 0 .. N |-> IF k = 0 THEN 0 ELSE s[k - 1] + w[k - 1]]

(* OverBuses is the last of its running sums: the recursion is well defined.   *)
LEMMA OverBusesDefined ==
    ASSUME NEW w
    PROVE  \E s : /\ OverBuses(w) = s[MAX_BUSES]
                  /\ \A k \in 0 .. MAX_BUSES :
                       s[k] = IF k = 0 THEN 0 ELSE s[k - 1] + w[k - 1]
<1> USE SizesAssumption
<1> DEFINE Has == {n \in Nat : \E s : RunningSum(s, w, n)}
<1>1. 0 \in Has
  <2>1. RunningSum([n \in 0 .. 0 |-> 0], w, 0)
    BY DEF RunningSum
  <2> QED
    BY <2>1
<1>2. ASSUME NEW n \in Nat, n \in Has PROVE n + 1 \in Has
  <2>1. PICK s : RunningSum(s, w, n)
    BY <1>2
  <2> DEFINE t == [k \in 0 .. n + 1 |-> IF k = n + 1 THEN s[n] + w[n] ELSE s[k]]
  <2>2. \A k \in 0 .. n : s[k] = IF k = 0 THEN 0 ELSE s[k - 1] + w[k - 1]
    BY <2>1 DEF RunningSum
  <2>3. \A k \in 0 .. n + 1 : t[k] = IF k = 0 THEN 0 ELSE t[k - 1] + w[k - 1]
    <3> TAKE k \in 0 .. n + 1
    <3>1. CASE k = n + 1
      BY <3>1
    <3>2. CASE k # n + 1
      BY <3>2, <2>2
    <3> QED
      BY <3>1, <3>2
  <2>4. t = [k \in 0 .. n + 1 |-> IF k = 0 THEN 0 ELSE t[k - 1] + w[k - 1]]
    BY <2>3
  <2>5. RunningSum(t, w, n + 1)
    <3> HIDE DEF t
    <3> QED
      BY <2>4 DEF RunningSum
  <2> HIDE DEF t
  <2> QED
    BY <2>5
<1>3. PICK s : RunningSum(s, w, MAX_BUSES)
  BY <1>1, <1>2, SetInduction
<1> DEFINE c == CHOOSE f : f = [k \in 0 .. MAX_BUSES |->
                                  IF k = 0 THEN 0 ELSE f[k - 1] + w[k - 1]]
<1>4. c = [k \in 0 .. MAX_BUSES |-> IF k = 0 THEN 0 ELSE c[k - 1] + w[k - 1]]
  BY <1>3, Zenon DEF RunningSum
<1>5. OverBuses(w) = c[MAX_BUSES]
  BY DEF OverBuses
<1> HIDE DEF c
<1> QED
  BY <1>4, <1>5

LEMMA OverBusesType ==
    ASSUME NEW w \in [Bus -> Nat] PROVE OverBuses(w) \in Nat
<1> USE SizesAssumption DEF Bus
<1>1. PICK s : /\ OverBuses(w) = s[MAX_BUSES]
               /\ \A k \in 0 .. MAX_BUSES :
                    s[k] = IF k = 0 THEN 0 ELSE s[k - 1] + w[k - 1]
  BY OverBusesDefined
<1> DEFINE Good == {n \in Nat : n <= MAX_BUSES => s[n] \in Nat}
<1>2. 0 \in Good
  BY <1>1
<1>3. ASSUME NEW n \in Nat, n \in Good PROVE n + 1 \in Good
  BY <1>1, <1>3
<1> HIDE DEF Good
<1>4. MAX_BUSES \in Good
  BY <1>2, <1>3, SetInduction
<1> QED
  BY <1>1, <1>4 DEF Good

LEMMA OverBusesZero ==
    ASSUME NEW w, \A b \in Bus : w[b] = 0 PROVE OverBuses(w) = 0
<1> USE SizesAssumption DEF Bus
<1>1. PICK s : /\ OverBuses(w) = s[MAX_BUSES]
               /\ \A k \in 0 .. MAX_BUSES :
                    s[k] = IF k = 0 THEN 0 ELSE s[k - 1] + w[k - 1]
  BY OverBusesDefined
<1> DEFINE Good == {n \in Nat : n <= MAX_BUSES => s[n] = 0}
<1>2. 0 \in Good
  BY <1>1
<1>3. ASSUME NEW n \in Nat, n \in Good PROVE n + 1 \in Good
  BY <1>1, <1>3
<1> HIDE DEF Good
<1>4. MAX_BUSES \in Good
  BY <1>2, <1>3, SetInduction
<1> QED
  BY <1>1, <1>4 DEF Good

(* When the number of one bus changes, the sum changes by as much.             *)
LEMMA OverBusesChange ==
    ASSUME NEW v \in [Bus -> Int], NEW w \in [Bus -> Int],
           NEW b \in Bus, \A c \in Bus : c # b => w[c] = v[c]
    PROVE  OverBuses(w) = OverBuses(v) + w[b] - v[b]
<1> USE SizesAssumption DEF Bus
<1>1. PICK s : /\ OverBuses(v) = s[MAX_BUSES]
               /\ \A k \in 0 .. MAX_BUSES :
                    s[k] = IF k = 0 THEN 0 ELSE s[k - 1] + v[k - 1]
  BY OverBusesDefined
<1>2. PICK t : /\ OverBuses(w) = t[MAX_BUSES]
               /\ \A k \in 0 .. MAX_BUSES :
                    t[k] = IF k = 0 THEN 0 ELSE t[k - 1] + w[k - 1]
  BY OverBusesDefined
<1> DEFINE Good == {n \in Nat : n <= MAX_BUSES =>
                      /\ s[n] \in Int
                      /\ t[n] = IF n <= b THEN s[n] ELSE s[n] + w[b] - v[b]}
<1>3. 0 \in Good
  BY <1>1, <1>2
<1>4. ASSUME NEW n \in Nat, n \in Good PROVE n + 1 \in Good
  <2>1. ASSUME n + 1 <= MAX_BUSES PROVE n \in Bus /\ n + 1 \in 0 .. MAX_BUSES
    BY <2>1
  <2>2. ASSUME n + 1 <= MAX_BUSES
        PROVE  s[n + 1] = s[n] + v[n] /\ t[n + 1] = t[n] + w[n]
    BY <2>1, <2>2, <1>1, <1>2
  <2>3. ASSUME n + 1 <= MAX_BUSES
        PROVE  /\ v[n] \in Int /\ w[n] \in Int /\ v[b] \in Int /\ w[b] \in Int
               /\ n # b => w[n] = v[n]
    BY <2>1, <2>3
  <2>4. n <= MAX_BUSES => /\ s[n] \in Int
                          /\ t[n] = IF n <= b THEN s[n] ELSE s[n] + w[b] - v[b]
    BY <1>4
  <2> QED
    BY <2>2, <2>3, <2>4
<1> HIDE DEF Good
<1>5. MAX_BUSES \in Good
  BY <1>3, <1>4, SetInduction
<1> QED
  BY <1>1, <1>2, <1>5 DEF Good

-----------------------------------------------------------------------------
USE DEF shmVars, flagVars, shmFlags, counterVars, officeCounters, rideCounters,
        busVars, loadVars, ipcVars, ticketQueues, boardingQueues, driverVars,
        passengerVars, officeVars, dispatcherVars, signalFlags,
        TypeOK, ShmTypeOK, DriverTypeOK, PassengerTypeOK, OfficeTypeOK,
        DispatcherTypeOK, MainTypeOK, DriverPC, PassengerPC, OfficePC,
        DispatcherPC, MainPC, Time

-----------------------------------------------------------------------------
(* What the helpers of CityBusShm return.                                      *)

(* msg_send_*: the queues stay queues of messages of their kind.               *)
LEMMA SentType ==
    ASSUME NEW D, NEW M, NEW q \in [D -> Seq(M)], NEW to, NEW msg \in M
    PROVE  Sent(q, to, msg) \in [D -> Seq(M)]
<1>1. ASSUME to \in D PROVE Append(q[to], msg) \in Seq(M)
  BY <1>1
<1> QED
  BY <1>1 DEF Sent

(* A queue that is not empty has a head of its kind and leaves a queue.        *)
LEMMA QueueParts ==
    ASSUME NEW M, NEW q \in Seq(M), q # <<>>
    PROVE  Head(q) \in M /\ Tail(q) \in Seq(M)
  BY HeadTailProperties

LEMMA Membership == \A S, x : (x \in S) \in BOOLEAN
  BY SMT

LEMMA SemType ==
    ASSUME sem \in [Semaphore -> Int], NEW s \in Semaphore
    PROVE  Locked(s) \in [Semaphore -> Int] /\ Unlocked(s) \in [Semaphore -> Int]
  BY DEF Locked, Unlocked

LEMMA SeatsType == \A p : Seats(p) \in Nat /\ Seats(p) > 0 /\ Bikes(p) \in Nat
  BY DEF Seats, Bikes

-----------------------------------------------------------------------------
(* The initial states are typed: at the start of the drivers and after it.     *)
LEMMA InitTyped == Init => TypeOK
<1> SUFFICES ASSUME Init PROVE TypeOK
  OBVIOUS
<1> USE SizesAssumption, ProfilesAssumption
<1>1. sem \in [Semaphore -> Int]
  BY DEF Init, ShmInit, FreshIpc
<1>2. active_bus_id \in Bus
  BY DEF Init, ShmInit, EmptyStand, Bus
<1>3. /\ ticket_queue \in Seq(Passengers)
      /\ ticket_resp \in [Passengers -> Seq(BOOLEAN)]
      /\ boarding_queue \in [BoardingType -> Seq(BoardingRequest)]
      /\ boarding_resp \in [Passengers -> Seq(BoardingResponse)]
  BY DEF Init, ShmInit, FreshIpc
<1>4. /\ boarding_open \in [Bus -> BOOLEAN]
      /\ departure_time \in [Bus -> Time]
      /\ driver_pids \in [Bus -> BOOLEAN]
  BY DEF Init, BusesParked
<1>5. ShmTypeOK
  BY <1>1, <1>2, <1>3, <1>4 DEF Init, ShmInit, EmptyStand, FreshIpc
<1>6. has_ticket \in [Passengers -> BOOLEAN]
  BY ZenonT(20), Membership DEF Init, OthersInit, PassengerInit
<1>7. was_active \in [Bus -> BOOLEAN]
  BY ZenonT(20) DEF Init, DriverInit
<1>8. DriverTypeOK
  BY <1>7 DEF Init, DriverInit
<1> QED
  BY <1>5, <1>6, <1>8 DEF Init, OthersInit, PassengerInit, OfficeInit, DispatcherInit, MainInit

LEMMA UpInitTyped == UpInit => TypeOK
<1> SUFFICES ASSUME UpInit PROVE TypeOK
  OBVIOUS
<1> USE SizesAssumption, ProfilesAssumption
<1>1. sem \in [Semaphore -> Int]
  BY DEF UpInit, ShmInit, FreshIpc
<1>2. active_bus_id \in Bus
  BY DEF UpInit, ShmInit, EmptyStand, Bus
<1>3. /\ ticket_queue \in Seq(Passengers)
      /\ ticket_resp \in [Passengers -> Seq(BOOLEAN)]
      /\ boarding_queue \in [BoardingType -> Seq(BoardingRequest)]
      /\ boarding_resp \in [Passengers -> Seq(BoardingResponse)]
  BY DEF UpInit, ShmInit, FreshIpc
<1>4. /\ boarding_open \in [Bus -> BOOLEAN]
      /\ departure_time \in [Bus -> Time]
      /\ driver_pids \in [Bus -> BOOLEAN]
  BY DEF UpInit, BusesReady
<1>5. ShmTypeOK
  BY <1>1, <1>2, <1>3, <1>4 DEF UpInit, ShmInit, EmptyStand, FreshIpc
<1>6. has_ticket \in [Passengers -> BOOLEAN]
  BY ZenonT(20), Membership DEF UpInit, OthersInit, PassengerInit
<1>7. was_active \in [Bus -> BOOLEAN]
  BY ZenonT(20) DEF UpInit, DriverInit
<1>8. DriverTypeOK
  BY <1>7 DEF UpInit, DriverInit
<1> QED
  BY <1>5, <1>6, <1>8 DEF UpInit, OthersInit, PassengerInit, OfficeInit, DispatcherInit, MainInit

-----------------------------------------------------------------------------
(* One step per action of a driver.                                            *)
LEMMA DriveTyped == ASSUME TypeOK, NEW b \in Bus, Drive(b) PROVE TypeOK'
<1> USE DEF DriverAt
<1>1. /\ PassengerTypeOK' /\ OfficeTypeOK' /\ DispatcherTypeOK' /\ MainTypeOK'
  BY DEF Drive
<1>2. CASE DriverStart(b)
  BY <1>1, <1>2 DEF DriverStart
<1>3. CASE CheckShutdown(b)
  <2>1. \E to \in {"exit", "last_depart", "role"} : dpc' = [dpc EXCEPT ![b] = to]
    BY <1>3 DEF CheckShutdown
  <2>2. UNCHANGED <<shmVars, d_running, g_early_departure, was_active, request>>
    BY <1>3 DEF CheckShutdown
  <2> QED
    BY <1>1, <2>1, <2>2
<1>4. CASE Role(b)
  BY <1>1, <1>4 DEF Role
<1>5. CASE Recv(b)
  <2>1. PICK t \in BoardingType :
           /\ boarding_queue[t] # <<>>
           /\ request' = [request EXCEPT ![b] = Head(boarding_queue[t])]
           /\ boarding_queue' = [boarding_queue EXCEPT ![t] = Tail(@)]
    BY <1>5 DEF Recv, RecvType
  <2>2. /\ Head(boarding_queue[t]) \in BoardingRequest
        /\ Tail(boarding_queue[t]) \in Seq(BoardingRequest)
    BY <2>1, QueueParts
  <2> QED
    BY <1>1, <1>5, <2>1, <2>2 DEF Recv
<1>6. CASE RecvRemoved(b)
  BY <1>1, <1>6 DEF RecvRemoved
<1>7. CASE Grant(b)
  BY <1>1, <1>7 DEF Grant
<1>8. CASE Deny(b)
  <2>1. boarding_resp' \in [Passengers -> Seq(BoardingResponse)]
    BY <1>8, SentType DEF Deny, Response, BoardingResponse
  <2>2. request' \in [Bus -> BoardingRequest \cup {NoRequest}]
    BY <1>8 DEF Deny
  <2>3. dpc' \in [Bus -> DriverPC]
    BY <1>8 DEF Deny, AfterRequest
  <2>4. DriverTypeOK'
    BY <1>8, <2>2, <2>3 DEF Deny
  <2>5. ShmTypeOK'
    BY <1>8, <2>1 DEF Deny
  <2> QED
    BY <1>1, <2>4, <2>5
<1>9. CASE EntranceLock(b)
  <2>1. EntranceOf(request[b].pid) \in Semaphore
    BY DEF EntranceOf, Semaphore
  <2>2. sem' \in [Semaphore -> Int]
    BY <1>9, <2>1, SemType DEF EntranceLock
  <2>3. ShmTypeOK'
    BY <1>9, <2>2 DEF EntranceLock
  <2>4. DriverTypeOK'
    BY <1>9 DEF EntranceLock
  <2> QED
    BY <1>1, <2>3, <2>4
<1>10. CASE TakeSeats(b)
  <2>1. Seats(request[b].pid) \in Nat /\ Bikes(request[b].pid) \in Nat
    BY SeatsType
  <2>2. ClampAtZero(passengers_waiting - Seats(request[b].pid)) \in Nat
    BY <2>1 DEF ClampAtZero
  <2>3. passenger_count' \in [Bus -> Nat] /\ bike_count' \in [Bus -> Nat]
    <3>1. passenger_count[b] + Seats(request[b].pid) \in Nat
      BY <2>1
    <3>2. bike_count[b] + Bikes(request[b].pid) \in Nat
      BY <2>1
    <3> QED
      BY <1>10, <3>1, <3>2 DEF TakeSeats
  <2>4. boarded_people' \in Nat /\ passengers_waiting' \in Nat
    BY <1>10, <2>1, <2>2 DEF TakeSeats, WaitingWithout
  <2>5. ShmTypeOK'
    <3>1. entering_count' \in [Bus -> Int]
      BY <1>10 DEF TakeSeats
    <3> QED
      BY <1>10, <2>3, <2>4, <3>1 DEF TakeSeats
  <2>6. DriverTypeOK'
    BY <1>10 DEF TakeSeats
  <2> QED
    BY <1>1, <2>5, <2>6
<1>11. CASE Answer(b)
  <2>1. boarding_resp' \in [Passengers -> Seq(BoardingResponse)]
    BY <1>11, SentType DEF Answer, Response, BoardingResponse
  <2>2. EntranceOf(request[b].pid) \in Semaphore
    BY DEF EntranceOf, Semaphore
  <2>3. sem' \in [Semaphore -> Int]
    BY <1>11, <2>2, SemType DEF Answer
  <2>4. request' \in [Bus -> BoardingRequest \cup {NoRequest}]
    BY <1>11 DEF Answer
  <2>5. dpc' \in [Bus -> DriverPC]
    BY <1>11 DEF Answer, AfterRequest
  <2>6. DriverTypeOK'
    BY <1>11, <2>4, <2>5 DEF Answer
  <2>7. ShmTypeOK'
    BY <1>11, <2>1, <2>3 DEF Answer
  <2> QED
    BY <1>1, <2>6, <2>7
<1>12. CASE Check(b)
  <2>1. g_early_departure' \in [Bus -> BOOLEAN]
    BY <1>12 DEF Check, Scheduled, Signalled, FullBus
  <2>2. dpc' \in [Bus -> DriverPC] /\ UNCHANGED <<shmVars, d_running, was_active, request>>
    BY <1>12 DEF Check, StayAt
  <2>3. ShmTypeOK'
    BY <2>2
  <2>4. DriverTypeOK'
    BY <2>1, <2>2
  <2> QED
    BY <1>1, <2>3, <2>4
<1>13. CASE Switch(b)
  BY <1>1, <1>13 DEF Switch
<1>14. CASE Depart(b)
  <2>1. DriverTypeOK'
    BY <1>14 DEF Depart
  <2>2. ShmTypeOK'
    BY <1>14 DEF Depart
  <2> QED
    BY <1>1, <2>1, <2>2
<1>15. CASE Return(b)
  <2>1. DriverTypeOK'
    BY <1>15 DEF Return, Emptied, ActiveAfterReturn
  <2>2. active_bus_id' \in Bus \cup {-1}
    BY <1>15 DEF Return, Emptied, ActiveAfterReturn
  <2>3. ShmTypeOK'
    BY <1>15, <2>2 DEF Return, Emptied, ActiveAfterReturn
  <2> QED
    BY <1>1, <2>1, <2>3
<1>16. CASE DriverExit(b)
  BY <1>1, <1>16 DEF DriverExit
<1> QED
  BY <1>2, <1>3, <1>4, <1>5, <1>6, <1>7, <1>8, <1>9, <1>10, <1>11, <1>12,
     <1>13, <1>14, <1>15, <1>16 DEF Drive, DriverStep

-----------------------------------------------------------------------------
(* One step per action of a passenger.                                         *)
LEMMA TravelTyped == ASSUME TypeOK, NEW p \in Passengers, Travel(p) PROVE TypeOK'
<1> USE DEF PassengerAt
<1>1. /\ DriverTypeOK' /\ OfficeTypeOK' /\ DispatcherTypeOK' /\ MainTypeOK'
  BY DEF Travel
<1>2. Seats(p) \in Nat
  BY SeatsType
<1>3. CASE Arrive(p)
  BY <1>1, <1>2, <1>3 DEF Arrive
<1>4. CASE Register(p)
  BY <1>1, <1>2, <1>4 DEF Register
<1>5. CASE JoinOffice(p)
  BY <1>1, <1>2, <1>5 DEF JoinOffice
<1>6. CASE RequestTicket(p)
  <2>1. sem' \in [Semaphore -> Int]
    BY <1>6, SemType DEF RequestTicket, Semaphore
  <2>2. ticket_queue' \in Seq(Passengers)
    BY <1>6 DEF RequestTicket
  <2>3. ShmTypeOK'
    BY <1>6, <2>1, <2>2 DEF RequestTicket
  <2>4. PassengerTypeOK'
    BY <1>6 DEF RequestTicket
  <2> QED
    BY <1>1, <2>3, <2>4
<1>7. CASE ReceiveTicket(p)
  <2>1. Head(ticket_resp[p]) \in BOOLEAN /\ Tail(ticket_resp[p]) \in Seq(BOOLEAN)
    BY <1>7, QueueParts DEF ReceiveTicket
  <2>2. ShmTypeOK'
    BY <1>7, <2>1 DEF ReceiveTicket
  <2>3. \E to \in {"closed_check", "leave"} : ppc' = [ppc EXCEPT ![p] = to]
    BY <1>7 DEF ReceiveTicket
  <2>4. has_ticket' \in [Passengers -> BOOLEAN]
    BY <1>7, <2>1 DEF ReceiveTicket
  <2>5. ppc' \in [Passengers -> PassengerPC]
    BY <2>3
  <2>6. PassengerTypeOK'
    BY <1>7, <2>4, <2>5 DEF ReceiveTicket
  <2> QED
    BY <1>1, <2>2, <2>6
<1>8. CASE TicketRemoved(p)
  <2>1. ppc' = [ppc EXCEPT ![p] = "leave"]
    BY <1>8 DEF TicketRemoved
  <2>2. ppc' \in [Passengers -> PassengerPC]
    BY <2>1
  <2> QED
    BY <1>1, <1>8, <2>2 DEF TicketRemoved
<1>9. CASE ClosedCheck(p)
  BY <1>1, <1>2, <1>9 DEF ClosedCheck
<1>10. CASE FindClosed(p)
  <2>1. \E to \in {"leave", "board_loop"} : ppc' = [ppc EXCEPT ![p] = to]
    BY <1>10 DEF FindClosed, EntryFails
  <2> QED
    BY <1>1, <1>10, <2>1 DEF FindClosed, EntryFails
<1>11. CASE FindOpen(p)
  BY <1>1, <1>2, <1>11 DEF FindOpen
<1>12. CASE EnterStation(p)
  BY <1>1, <1>2, <1>12 DEF EnterStation
<1>13. CASE EntryRefused(p)
  <2>1. \E to \in {"leave", "board_loop"} : ppc' = [ppc EXCEPT ![p] = to]
    BY <1>13 DEF EntryRefused, EntryFails
  <2> QED
    BY <1>1, <1>13, <2>1 DEF EntryRefused, EntryFails
<1>14. CASE BoardLoop(p)
  BY <1>1, <1>2, <1>14 DEF BoardLoop
<1>15. CASE FindBus(p)
  BY <1>1, <1>2, <1>15 DEF FindBus
<1>16. CASE RequestBoarding(p)
  <2>1. sem' \in [Semaphore -> Int]
    BY <1>16, SemType DEF RequestBoarding, Semaphore
  <2>2. MTypeOf(p) \in BoardingType /\ [pid |-> p, has_ticket |-> has_ticket[p]] \in BoardingRequest
    BY DEF MTypeOf, BoardingType, BoardingRequest
  <2>3. boarding_queue' \in [BoardingType -> Seq(BoardingRequest)]
    BY <1>16, <2>2 DEF RequestBoarding
  <2>4. ShmTypeOK'
    BY <1>16, <2>1, <2>3 DEF RequestBoarding
  <2>5. PassengerTypeOK'
    BY <1>16 DEF RequestBoarding
  <2> QED
    BY <1>1, <2>4, <2>5
<1>17. CASE ReceiveBoarding(p)
  <2>1. /\ Head(boarding_resp[p]) \in BoardingResponse
        /\ Tail(boarding_resp[p]) \in Seq(BoardingResponse)
    BY <1>17, QueueParts DEF ReceiveBoarding
  <2>2. sem' \in [Semaphore -> Int]
    BY <1>17, SemType DEF ReceiveBoarding, Semaphore
  <2>3. ShmTypeOK'
    BY <1>17, <2>1, <2>2 DEF ReceiveBoarding
  <2>4. \E to \in {"join", "board_loop"} : ppc' = [ppc EXCEPT ![p] = to]
    BY <1>17 DEF ReceiveBoarding
  <2>5. boarded' \in [Passengers -> Bus \cup {-1}]
    BY <1>17, <2>1 DEF ReceiveBoarding, BoardingResponse
  <2>6. PassengerTypeOK'
    BY <1>17, <2>4, <2>5 DEF ReceiveBoarding
  <2> QED
    BY <1>1, <2>3, <2>6
<1>18. CASE BoardingRemoved(p)
  BY <1>1, <1>2, <1>18 DEF BoardingRemoved
<1>19. CASE Leave(p)
  BY <1>1, <1>2, <1>19 DEF Leave
<1>20. CASE StopWaiting(p)
  <2>1. ClampAtZero(passengers_waiting - Seats(p)) \in Nat
    BY <1>2 DEF ClampAtZero
  <2>2. ShmTypeOK'
    BY <1>2, <1>20, <2>1 DEF StopWaiting, WaitingWithout
  <2>3. PassengerTypeOK'
    BY <1>20 DEF StopWaiting, WaitingWithout
  <2> QED
    BY <1>1, <2>2, <2>3
<1>21. CASE Join(p)
  BY <1>1, <1>2, <1>21 DEF Join
<1> QED
  BY <1>3, <1>4, <1>5, <1>6, <1>7, <1>8, <1>9, <1>10, <1>11, <1>12, <1>13, <1>14, <1>15, <1>16, <1>17, <1>18, <1>19, <1>20, <1>21 DEF Travel, PassengerStep

-----------------------------------------------------------------------------
(* One step per action of a ticket office.                                     *)
LEMMA SellTyped == ASSUME TypeOK, NEW o \in Office, Sell(o) PROVE TypeOK'
<1> USE DEF OfficeAt
<1>1. /\ DriverTypeOK' /\ PassengerTypeOK' /\ DispatcherTypeOK' /\ MainTypeOK'
  BY DEF Sell
<1>2. CASE OfficeCheck(o)
  <2>1. \E to \in {"exit", "drain", "recv"} : opc' = [opc EXCEPT ![o] = to]
    BY <1>2 DEF OfficeCheck
  <2> QED
    BY <1>1, <1>2, <2>1 DEF OfficeCheck
<1>3. CASE TakeRequest(o)
  <2>1. Head(ticket_queue) \in Passengers /\ Tail(ticket_queue) \in Seq(Passengers)
    BY <1>3, QueueParts DEF TakeRequest
  <2>2. sem' \in [Semaphore -> Int]
    BY <1>3, SemType DEF TakeRequest, Semaphore
  <2>3. ShmTypeOK'
    BY <1>3, <2>1, <2>2 DEF TakeRequest
  <2>4. OfficeTypeOK'
    BY <1>3, <2>1 DEF TakeRequest
  <2> QED
    BY <1>1, <2>3, <2>4
<1>4. CASE QueueRemoved(o)
  BY <1>1, <1>4 DEF QueueRemoved
<1>5. CASE IssueTicket(o)
  <2>1. ticket_resp' \in [Passengers -> Seq(BOOLEAN)]
    BY <1>5, SentType DEF IssueTicket
  <2>2. passengers_in_office' \in Int /\ tickets_issued' \in Nat
    BY <1>5 DEF IssueTicket
  <2>4. ShmTypeOK'
    BY <1>5, <2>1, <2>2 DEF IssueTicket
  <2>3. OfficeTypeOK'
    BY <1>5 DEF IssueTicket
  <2> QED
    BY <1>1, <2>3, <2>4
<1>6. CASE DrainOne(o)
  <2>1. Tail(ticket_queue) \in Seq(Passengers)
    BY <1>6, QueueParts DEF DrainOne
  <2>2. sem' \in [Semaphore -> Int]
    BY <1>6, SemType DEF DrainOne, Semaphore
  <2>3. ticket_resp' \in [Passengers -> Seq(BOOLEAN)]
    BY <1>6, SentType DEF DrainOne
  <2>4. ShmTypeOK'
    <3>1. passengers_in_office' \in Int /\ tickets_denied' \in Nat
      BY <1>6 DEF DrainOne
    <3> QED
      BY <1>6, <2>1, <2>2, <2>3, <3>1 DEF DrainOne
  <2>5. OfficeTypeOK'
    BY <1>6 DEF DrainOne
  <2> QED
    BY <1>1, <2>4, <2>5
<1>7. CASE DrainDone(o)
  BY <1>1, <1>7 DEF DrainDone
<1> QED
  BY <1>2, <1>3, <1>4, <1>5, <1>6, <1>7 DEF Sell, OfficeStep

-----------------------------------------------------------------------------
(* SIGUSR1 to some drivers sets flags, nothing else.                           *)
LEMMA SignalType ==
    ASSUME g_early_departure \in [Bus -> BOOLEAN], NEW T, SignalDrivers(T)
    PROVE  g_early_departure' \in [Bus -> BOOLEAN]
  BY DEF SignalDrivers

(* One step per action of the dispatcher.                                      *)
LEMMA DispatchTyped == ASSUME TypeOK, Dispatch PROVE TypeOK'
<1> USE DEF DispatcherAt
<1>1. /\ PassengerTypeOK' /\ OfficeTypeOK' /\ MainTypeOK'
  BY DEF Dispatch
<1>2. CASE StopLoop
  BY <1>1, <1>2 DEF StopLoop
<1>3. CASE ForwardEarly
  <2>1. g_early_departure' \in [Bus -> BOOLEAN]
    BY <1>3, SignalType DEF ForwardEarly
  <2>2. ShmTypeOK'
    BY <1>3 DEF ForwardEarly
  <2>3. DriverTypeOK' /\ DispatcherTypeOK'
    BY <1>3, <2>1 DEF ForwardEarly
  <2> QED
    BY <1>1, <2>2, <2>3
<1>4. CASE CloseStation
  BY <1>1, <1>4 DEF CloseStation
<1>5. CASE NothingToClose
  BY <1>1, <1>5 DEF NothingToClose
<1>6. CASE WakeBlocked
  <2>1. sem' \in [Semaphore -> Int]
    <3>1. WAKE_ALL \in Int
      BY DEF WAKE_ALL
    <3> QED
      BY <1>6, <3>1 DEF WakeBlocked
  <2> QED
    BY <1>1, <1>6, <2>1 DEF WakeBlocked
<1>7. CASE CheckDriverHealth
  <2>1. /\ active_bus_id' \in Bus \cup {-1}
        /\ departure_time' \in [Bus -> Time]
        /\ boarding_open' \in [Bus -> BOOLEAN]
    BY <1>7 DEF CheckDriverHealth
  <2>2. driver_pids' \in [Bus -> BOOLEAN]
    BY <1>7 DEF CheckDriverHealth, Live
  <2> QED
    BY <1>1, <1>7, <2>1, <2>2 DEF CheckDriverHealth
<1>8. CASE FindOverdue
  BY <1>1, <1>8 DEF FindOverdue, Bus
<1>12. CASE ForceDeparture
  <2>1. g_early_departure' \in [Bus -> BOOLEAN]
    BY <1>12, SignalType DEF ForceDeparture
  <2>2. DispatcherTypeOK'
    BY <1>12 DEF ForceDeparture
  <2> QED
    BY <1>1, <1>12, <2>1, <2>2 DEF ForceDeparture
<1>13. CASE OverseerDone
  BY <1>1, <1>13 DEF OverseerDone
<1>9. CASE CheckSimulationEnd
  BY <1>1, <1>9 DEF CheckSimulationEnd
<1>10. CASE Shutdown
  <2>1. ShmTypeOK'
    <3>1. OnBuses \in Nat
      BY OverBusesType DEF OnBuses
    <3>2. passengers_transported' \in Nat
      BY <1>10, <3>1 DEF Shutdown
    <3>3. passenger_count' \in [Bus -> Nat]
      BY <1>10 DEF Shutdown
    <3> QED
      BY <1>10, <3>2, <3>3 DEF Shutdown
  <2>2. DriverTypeOK' /\ DispatcherTypeOK'
    BY <1>10 DEF Shutdown
  <2> QED
    BY <1>1, <2>1, <2>2
<1>11. CASE CleanUp
  <2>1. ShmTypeOK'
    BY <1>11 DEF CleanUp
  <2>2. DriverTypeOK' /\ DispatcherTypeOK'
    BY <1>11 DEF CleanUp, DispatcherAt
  <2> QED
    BY <1>1, <2>1, <2>2
<1> QED
  BY <1>2, <1>3, <1>4, <1>5, <1>6, <1>7, <1>8, <1>9, <1>10, <1>11,
     <1>12, <1>13 DEF Dispatch, DispatcherStep

-----------------------------------------------------------------------------
LEMMA ReapedType == ASSUME DriverTypeOK PROVE Reaped \in [Bus -> DriverPC]
  BY DEF Reaped

(* One step per action of main.                                                *)
LEMMA MainTyped == ASSUME TypeOK, MainStep PROVE TypeOK'
<1> USE DEF MainAt
<1>1. ASSUME NEW p \in Passengers, SpawnPassenger(p) PROVE TypeOK'
  <2>1. DriverTypeOK'
    BY <1>1, ReapedType DEF SpawnPassenger
  <2> QED
    BY <1>1, <2>1 DEF SpawnPassenger, PassengerAt
<1>2. CASE StopSpawning
  BY <1>2 DEF StopSpawning
<1>3. CASE SeeStop
  BY <1>3 DEF SeeStop
<1>4. CASE Monitor
  <2>1. DriverTypeOK'
    BY <1>4, ReapedType DEF Monitor
  <2>2. disp_running' \in BOOLEAN
    <3>1. drain_complete \in BOOLEAN
      BY DEF drain_complete
    <3> QED
      BY <1>4, <3>1 DEF Monitor
  <2> QED
    BY <1>4, <2>1, <2>2 DEF Monitor
<1>5. CASE TerminateChildren
  <2>1. DriverTypeOK'
    BY <1>5 DEF TerminateChildren
  <2>2. PassengerTypeOK' /\ OfficeTypeOK'
    BY <1>5 DEF TerminateChildren
  <2>3. ShmTypeOK'
    BY <1>5 DEF TerminateChildren
  <2>4. DispatcherTypeOK' /\ MainTypeOK'
    BY <1>5 DEF TerminateChildren
  <2> QED
    BY <2>1, <2>2, <2>3, <2>4
<1>6. CASE KillChildren
  <2>1. ShmTypeOK'
    BY <1>6 DEF KillChildren
  <2>2. DriverTypeOK' /\ OfficeTypeOK'
    BY <1>6 DEF KillChildren
  <2>3. PassengerTypeOK'
    BY <1>6 DEF KillChildren
  <2>4. DispatcherTypeOK' /\ MainTypeOK'
    BY <1>6 DEF KillChildren
  <2> QED
    BY <2>1, <2>2, <2>3, <2>4
<1>7. CASE StopDispatcher
  <2>1. ShmTypeOK' /\ DriverTypeOK' /\ PassengerTypeOK' /\ OfficeTypeOK'
    BY <1>7 DEF StopDispatcher
  <2>2. DispatcherTypeOK' /\ MainTypeOK'
    BY <1>7 DEF StopDispatcher
  <2> QED
    BY <2>1, <2>2
<1> QED
  BY <1>1, <1>2, <1>3, <1>4, <1>5, <1>6, <1>7 DEF MainStep

(* Whom SIGTERM ends: a process that has done nothing yet, and a passenger that
   has done everything.                                                      *)
EndedEarly ==
    /\ \A p \in Passengers :
          ppc'[p] = ppc[p] \/ (ppc[p] \in {"arrive", "stranded"} /\ ppc'[p] = "gone")
    /\ \A b \in Bus : dpc'[b] = dpc[b] \/ (dpc[b] = "start" /\ dpc'[b] = "zombie")

LEMMA SignalsEndEarly ==
    ASSUME TypeOK, Interrupt \/ TerminateChildren
    PROVE  EndedEarly
<1>1. CASE TerminateChildren
  BY <1>1 DEF TerminateChildren, DriverTermEnds, PassengerTermEnds, EndedEarly
<1>2. ASSUME NEW b \in Bus, DriverTerm(b), UNCHANGED passengerVars PROVE EndedEarly
  BY <1>2 DEF DriverTerm, DriverTermEnds, EndedEarly
<1>3. ASSUME NEW p \in Passengers, PassengerTerm(p), UNCHANGED driverVars PROVE EndedEarly
  BY <1>3 DEF PassengerTerm, PassengerTermEnds, EndedEarly
<1>4. ASSUME UNCHANGED <<dpc, ppc>> PROVE EndedEarly
  BY <1>4 DEF EndedEarly
<1> QED
  BY <1>1, <1>2, <1>3, <1>4 DEF Interrupt, OfficeTerm, MainTerm

-----------------------------------------------------------------------------
(* Time and signals.                                                           *)
LEMMA EnvironmentTyped ==
    ASSUME TypeOK,
           (\E b \in Bus : TimePasses(b)) \/ UserSignal \/ Interrupt \/ Kill
    PROVE  TypeOK'
<1>1. ASSUME NEW b \in Bus, TimePasses(b) PROVE TypeOK'
  <2>1. departure_time' \in [Bus -> Time]
    BY <1>1 DEF TimePasses
  <2> QED
    BY <1>1, <2>1 DEF TimePasses
<1>2. CASE UserSignal
  <2>1. ASSUME DispatcherUsr1 \/ DispatcherUsr2 \/ DispatcherTerm
        PROVE  /\ UNCHANGED <<shmVars, driverVars, disp_pc>>
               /\ DispatcherTypeOK'
    BY <2>1 DEF DispatcherUsr1, DispatcherUsr2, DispatcherTerm
  <2>2. UNCHANGED <<passengerVars, officeVars, mpc>>
    BY <1>2 DEF UserSignal
  <2>3. DispatcherUsr1 \/ DispatcherUsr2 \/ DispatcherTerm
    BY <1>2 DEF UserSignal
  <2>4. ShmTypeOK'
    BY <2>1, <2>3
  <2>5. DriverTypeOK' /\ PassengerTypeOK' /\ OfficeTypeOK' /\ MainTypeOK'
    BY <2>1, <2>2, <2>3
  <2> QED
    BY <2>1, <2>3, <2>4, <2>5
<1>3. CASE Interrupt
  <2>1. ASSUME NEW b \in Bus, DriverTerm(b),
               UNCHANGED <<passengerVars, officeVars, dispatcherVars, mpc>>
        PROVE  TypeOK'
    <3>1. ShmTypeOK' /\ PassengerTypeOK' /\ OfficeTypeOK' /\ DispatcherTypeOK' /\ MainTypeOK'
      BY <2>1 DEF DriverTerm
    <3>2. dpc' = dpc \/ dpc' = [dpc EXCEPT ![b] = "zombie"]
      BY <2>1 DEF DriverTerm
    <3>3. dpc' \in [Bus -> DriverPC]
      BY <3>2
    <3>4. /\ d_running' = [d_running EXCEPT ![b] = FALSE]
          /\ UNCHANGED <<g_early_departure, was_active, request>>
      BY <2>1 DEF DriverTerm
    <3>5. DriverTypeOK'
      BY <3>3, <3>4
    <3> QED
      BY <3>1, <3>5
  <2>2. ASSUME NEW p \in Passengers, PassengerTerm(p),
               UNCHANGED <<driverVars, officeVars, dispatcherVars, mpc>>
        PROVE  TypeOK'
    <3>1. ShmTypeOK' /\ DriverTypeOK' /\ OfficeTypeOK' /\ DispatcherTypeOK' /\ MainTypeOK'
      BY <2>2 DEF PassengerTerm
    <3>2. PassengerTypeOK'
      BY <2>2 DEF PassengerTerm
    <3> QED
      BY <3>1, <3>2
  <2>3. ASSUME NEW o \in Office, OfficeTerm(o),
               UNCHANGED <<driverVars, passengerVars, dispatcherVars, mpc>>
        PROVE  TypeOK'
    BY <2>3 DEF OfficeTerm
  <2>4. ASSUME MainTerm PROVE TypeOK'
    <3>1. ShmTypeOK' /\ DriverTypeOK' /\ PassengerTypeOK' /\ OfficeTypeOK'
      BY <2>4 DEF MainTerm
    <3>2. DispatcherTypeOK' /\ MainTypeOK'
      BY <2>4 DEF MainTerm, MainAt
    <3> QED
      BY <3>1, <3>2
  <2> QED
    BY <1>3, <2>1, <2>2, <2>3, <2>4 DEF Interrupt
<1>4. CASE Kill
  <2>1. PICK b \in Bus : DriverKill(b)
    BY <1>4 DEF Kill
  <2>2. PassengerTypeOK' /\ OfficeTypeOK' /\ DispatcherTypeOK' /\ MainTypeOK'
    BY <1>4 DEF Kill
  <2>3. frozen' \in BOOLEAN
    BY <2>1 DEF DriverKill, DriverSection
  <2>4. ShmTypeOK'
    BY <2>1, <2>3 DEF DriverKill
  <2>5. DriverTypeOK'
    BY <2>1 DEF DriverKill
  <2> QED
    BY <2>2, <2>4, <2>5
<1> QED
  BY <1>1, <1>2, <1>3, <1>4

(* TypeOK is inductive.                                                        *)
LEMMA NextTyped == TypeOK /\ [Next]_vars => TypeOK'
<1> SUFFICES ASSUME TypeOK, [Next]_vars PROVE TypeOK'
  OBVIOUS
<1>1. CASE UNCHANGED vars
  BY <1>1 DEF vars
<1>2. CASE Next
  BY <1>2, DriveTyped, TravelTyped, SellTyped, DispatchTyped, MainTyped,
     EnvironmentTyped DEF Next, Manage
<1> QED
  BY <1>1, <1>2

(* Type correctness of the simulation, from the forks of the drivers on.       *)
THEOREM SpecTyped == Spec => []TypeOK
  BY InitTyped, NextTyped, PTL DEF Spec

(* The same from the moment all drivers are registered.                        *)
THEOREM UpSpecTyped == UpSpec => []TypeOK
  BY UpInitTyped, NextTyped, PTL DEF UpSpec
=============================================================================
