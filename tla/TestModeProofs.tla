----------------------------- MODULE TestModeProofs ----------------------------
(* The tests of main, for every number of passengers, buses, offices and slots: *)
(* types, and the tests 6 to 8, which take the slots of the queues and give     *)
(* them back. The steps of the processes are those of the normal mode, so the   *)
(* lemmas of CityBusQueues apply to them; what is new is that main writes the   *)
(* semaphores itself.                                                           *)
EXTENDS TestMode, CityBusQueues

USE DEF shmVars, flagVars, shmFlags, counterVars, officeCounters, rideCounters,
        busVars, loadVars, ipcVars, ticketQueues, boardingQueues, driverVars,
        passengerVars, officeVars, dispatcherVars, signalFlags, testVars, TestAt

-----------------------------------------------------------------------------
(* A step of the processes as in the normal mode, signals and kills excepted.   *)
ProcessStep ==
    \/ \E b \in Bus : Drive(b) \/ TimePasses(b)
    \/ \E p \in Passengers : Travel(p)
    \/ \E o \in Office : Sell(o)
    \/ Dispatch \/ Manage
    \/ UNCHANGED vars

LEMMA ProcessOrTest ==
    ASSUME [TestNext]_tvars PROVE (ProcessStep /\ UNCHANGED testVars) \/ TestStep
  BY DEF TestNext, TestDrive, TestSell, TestTravel, TestDispatch, TestTimePasses,
     TestMain, ProcessStep, tvars

LEMMA ProcessStepsAreSteps == ProcessStep => [Next]_vars
  BY DEF ProcessStep, Next

(* How often test 3 may still send its signal.                                 *)
SignalsLeft == tpc \in {"block", "spawn", "run"} => round < EARLY_SIGNALS

(* What main does to its children and to their memory in a test.               *)
LEMMA TestStepTyped ==
    ASSUME TypeOK, TestStep
    PROVE  TypeOK'
<1> USE DEF MainAt, PassengerAt
<1>1. CASE SpawnEnd \/ ChooseVictim \/ CheckStats \/ EndDrain \/ Peek
  BY <1>1, NextTyped DEF SpawnEnd, ChooseVictim, CheckStats, EndDrain, Peek
<1>2. CASE BlockQueues \/ UnblockQueues \/ LiftLimit
  <2>1. sem' \in [Semaphore -> Int]
    BY <1>2, SlotTypes, SizesAssumption
       DEF BlockQueues, UnblockQueues, Unblocked, LiftLimit, WAKE_ALL
  <2>2. /\ UNCHANGED <<flagVars, counterVars, busVars, ticketQueues, boardingQueues, ipc_exists>>
        /\ UNCHANGED <<driverVars, passengerVars, officeVars, dispatcherVars, mpc>>
    BY <1>2 DEF BlockQueues, UnblockQueues, LiftLimit
  <2>3. ShmTypeOK'
    BY <2>1, <2>2 DEF TypeOK, ShmTypeOK
  <2> QED
    BY <2>2, <2>3 DEF TypeOK, DriverTypeOK, PassengerTypeOK, OfficeTypeOK,
       DispatcherTypeOK, MainTypeOK
<1>3. ASSUME NEW p \in Passengers, TestSpawn(p) \/ BurstSpawn(p) PROVE TypeOK'
  <2>1. /\ UNCHANGED <<shmVars, d_running, g_early_departure, was_active, request>>
        /\ UNCHANGED <<p_running, has_ticket, boarded, officeVars, dispatcherVars, mpc>>
        /\ ppc' = [ppc EXCEPT ![p] = "arrive"]
    BY <1>3 DEF TestSpawn, BurstSpawn, Fork
  <2>2. dpc' \in [Bus -> DriverPC]
    BY <1>3, ReapedType DEF TestSpawn, BurstSpawn, TypeOK, DriverTypeOK
  <2>3. ShmTypeOK' /\ DriverTypeOK' /\ PassengerTypeOK'
    BY <2>1, <2>2 DEF TypeOK, ShmTypeOK, DriverTypeOK, PassengerTypeOK, PassengerPC
  <2> QED
    BY <2>1, <2>3 DEF TypeOK, OfficeTypeOK, DispatcherTypeOK, MainTypeOK
<1>4. CASE KillVictim
  <2>1. /\ UNCHANGED <<shmFlags, counterVars, busVars, ipcVars, passengerVars>>
        /\ UNCHANGED <<officeVars, dispatcherVars, mpc>>
        /\ UNCHANGED <<d_running, g_early_departure, was_active, request>>
        /\ dpc' = dpc \/ dpc' = [dpc EXCEPT ![victim] = "zombie"]
    BY <1>4 DEF KillVictim, DriverKill
  <2>2. frozen' \in BOOLEAN
    BY <1>4 DEF KillVictim, DriverKill, DriverSection, TypeOK, ShmTypeOK
  <2>3. ShmTypeOK' /\ DriverTypeOK'
    BY <2>1, <2>2 DEF TypeOK, ShmTypeOK, DriverTypeOK, DriverPC
  <2> QED
    BY <2>1, <2>3 DEF TypeOK, PassengerTypeOK, OfficeTypeOK, DispatcherTypeOK, MainTypeOK
<1>5. CASE TestClose \/ TestEarly
  <2>1. /\ UNCHANGED <<shmVars, driverVars, passengerVars, officeVars, mpc>>
        /\ DispatcherTypeOK'
    BY <1>5 DEF TestClose, TestEarly, TypeOK, DispatcherTypeOK
  <2> QED
    BY <2>1 DEF TypeOK, ShmTypeOK, DriverTypeOK, PassengerTypeOK, OfficeTypeOK, MainTypeOK
<1>6. CASE KillOffice \/ Stop \/ Continue
  <2>1. /\ UNCHANGED <<shmFlags, counterVars, busVars, ipcVars, driverVars>>
        /\ UNCHANGED <<passengerVars, dispatcherVars, mpc>>
        /\ OfficeTypeOK'
    BY <1>6 DEF KillOffice, Stop, Continue, TypeOK, OfficeTypeOK, OfficePC
  <2>2. frozen' \in BOOLEAN
    BY <1>6 DEF KillOffice, Stop, Continue, OfficeSection, TypeOK, ShmTypeOK
  <2>3. ShmTypeOK'
    BY <2>1, <2>2 DEF TypeOK, ShmTypeOK
  <2> QED
    BY <2>1, <2>3 DEF TypeOK, DriverTypeOK, PassengerTypeOK, DispatcherTypeOK, MainTypeOK
<1>7. CASE StartFill \/ EndFill
  <2>1. /\ UNCHANGED <<driverVars, passengerVars, officeVars, dispatcherVars, mpc>>
        /\ ShmTypeOK'
    BY <1>7 DEF StartFill, EndFill, TypeOK, ShmTypeOK
  <2> QED
    BY <2>1 DEF TypeOK, DriverTypeOK, PassengerTypeOK, OfficeTypeOK,
       DispatcherTypeOK, MainTypeOK
<1>8. CASE EndTest
  <2>1. /\ UNCHANGED <<shmVars, driverVars, passengerVars, officeVars, dispatcherVars>>
        /\ MainTypeOK'
    BY <1>8 DEF EndTest, MainTypeOK, MainPC
  <2> QED
    BY <2>1 DEF TypeOK, ShmTypeOK, DriverTypeOK, PassengerTypeOK, OfficeTypeOK,
       DispatcherTypeOK
<1> QED
  BY <1>1, <1>2, <1>3, <1>4, <1>5, <1>6, <1>7, <1>8 DEF TestStep

LEMMA TestStepCounts ==
    ASSUME TestTypeOK, SignalsLeft, TestStep
    PROVE  /\ test' = test /\ tpc' \in TestPC /\ round' \in 0 .. EARLY_SIGNALS
           /\ victim' \in Bus \cup {-1} /\ SignalsLeft'
<1> USE TestsAssumption DEF TestTypeOK, SignalsLeft, TestPC
<1>1. CASE TestEarly
  BY <1>1 DEF TestEarly
<1>2. CASE KillVictim \/ ChooseVictim \/ KillOffice
  BY <1>2 DEF KillVictim, ChooseVictim, KillOffice, TypeOK, ShmTypeOK
<1>3. ASSUME NEW p \in Passengers, TestSpawn(p) \/ BurstSpawn(p)
      PROVE  UNCHANGED testVars
  BY <1>3 DEF TestSpawn, BurstSpawn, Fork
<1>4. CASE TestStep /\ ~TestEarly /\ ~KillVictim /\ ~ChooseVictim /\ ~KillOffice
  BY <1>3, <1>4 DEF TestStep, BlockQueues, SpawnEnd, TestClose, CheckStats, UnblockQueues,
     EndDrain, StartFill, LiftLimit, Stop, Peek, Continue, EndFill, EndTest
<1> QED
  BY <1>1, <1>2, <1>4

(* Type correctness of the tests.                                              *)
THEOREM TestTyped == TestSpec => [](TestTypeOK /\ SignalsLeft)
<1>1. TestInit => TestTypeOK /\ SignalsLeft
  <2> SUFFICES ASSUME TestInit PROVE TestTypeOK /\ SignalsLeft
    OBVIOUS
  <2>1. TypeOK
    BY UpInitTyped, Zenon DEF TestInit
  <2>2. /\ test \in Tests /\ tpc \in {"block", "over"}
        /\ round = 0 /\ victim = -1
    BY Zenon DEF TestInit
  <2>3. round \in 0 .. EARLY_SIGNALS /\ SignalsLeft
    BY <2>2, TestsAssumption DEF SignalsLeft
  <2>4. tpc \in TestPC /\ victim \in Bus \cup {-1}
    BY <2>2 DEF TestPC
  <2> QED
    BY <2>1, <2>2, <2>3, <2>4, Zenon DEF TestTypeOK
<1>2. TestTypeOK /\ SignalsLeft /\ [TestNext]_tvars => (TestTypeOK /\ SignalsLeft)'
  <2> SUFFICES ASSUME TestTypeOK, SignalsLeft, [TestNext]_tvars
               PROVE  (TestTypeOK /\ SignalsLeft)'
    OBVIOUS
  <2>1. CASE ProcessStep /\ UNCHANGED testVars
    BY <2>1, ProcessStepsAreSteps, NextTyped DEF TestTypeOK, SignalsLeft
  <2>2. CASE TestStep
    BY <2>2, TestStepTyped, TestStepCounts DEF TestTypeOK
  <2> QED
    BY <2>1, <2>2, ProcessOrTest
<1> QED
  BY <1>1, <1>2, PTL DEF TestSpec

-----------------------------------------------------------------------------
(* Tests 6 to 8 go from the blocking to the end in one way, and nobody closes the
   station in them: main alone writes their semaphores.                      *)
SlotTest == test \in {6, 7, 8}

SlotTestCourse ==
    SlotTest => /\ tpc \in {"block", "spawn", "run", "drain", "over"}
                /\ ~g_block_station /\ ~station_closed /\ disp_pc # "wake"

(* The slots are taken before there is a passenger.                            *)
NobodyYet ==
    tpc = "block" => test # 0 /\ \A p \in Passengers : ppc[p] = "unborn"

(* A step of a test that is not about slots: a passenger is forked, or main goes
   on.                                                                       *)
QuietStep ==
    /\ UNCHANGED <<shmVars, opc, dispatcherVars>>
    /\ \A b \in Bus : dpc'[b] = dpc[b] \/ dpc'[b] \in Gone
    /\ \A p \in Passengers : ppc'[p] # "board_wait" <=> ppc[p] # "board_wait"
    /\ \/ tpc \in {"spawn", "run"} /\ tpc' \in {"spawn", "run"}
       \/ tpc \in {"drain", "over"} /\ tpc' = "over"

LEMMA SlotTestStep ==
    ASSUME TypeOK, SlotTest, SlotTestCourse, TestStep
    PROVE  /\ UNCHANGED test
           /\ \/ BlockQueues
              \/ test \in {6, 7, 8} /\ UnblockQueues
              \/ QuietStep
<1> USE SlotTypes DEF SlotTest, SlotTestCourse, QuietStep
<1>1. CASE BlockQueues \/ UnblockQueues
  BY <1>1 DEF BlockQueues, UnblockQueues
<1>2. CASE SpawnEnd \/ EndDrain \/ EndTest
  BY <1>2 DEF SpawnEnd, EndDrain, EndTest, vars
<1>3. ASSUME NEW p \in Passengers, TestSpawn(p) \/ BurstSpawn(p)
      PROVE  UNCHANGED test /\ QuietStep
  <2>1. TestSpawn(p)
    BY <1>3 DEF BurstSpawn
  <2>2. /\ UNCHANGED <<shmVars, opc, dispatcherVars, test>> /\ tpc = "spawn" /\ tpc' = tpc
        /\ ppc[p] = "unborn" /\ ppc' = [ppc EXCEPT ![p] = "arrive"]
    BY <2>1 DEF TestSpawn, Fork, PassengerAt
  <2>3. \A b \in Bus : dpc'[b] = dpc[b] \/ dpc'[b] \in Gone
    BY <2>1 DEF TestSpawn, Reaped, Gone
  <2> QED
    BY <2>2, <2>3
<1>4. ~ChooseVictim /\ ~TestClose /\ ~TestEarly /\ ~KillOffice /\ ~CheckStats /\ ~StartFill
  <2>1. test # 1 /\ test # 2 /\ test # 3 /\ test # 4 /\ test # 5 /\ test # 11
    OBVIOUS
  <2> QED
    BY <2>1, Zenon DEF ChooseVictim, TestClose, TestEarly, KillOffice, CheckStats, StartFill
<1>5. ~KillVictim /\ ~LiftLimit /\ ~EndFill
  BY DEF KillVictim, LiftLimit, EndFill
<1>6. ~Stop /\ ~Peek /\ ~Continue
  BY DEF Stop, Peek, Continue
<1> QED
  BY <1>1, <1>2, <1>3, <1>4, <1>5, <1>6 DEF TestStep

LEMMA NobodyYetStep ==
    ASSUME TestTypeOK, NobodyYet, [TestNext]_tvars
    PROVE  NobodyYet'
<1> SUFFICES ASSUME tpc' = "block"
             PROVE  test' # 0 /\ \A p \in Passengers : ppc'[p] = "unborn"
  BY DEF NobodyYet
<1> USE SlotTypes DEF NobodyYet, TestTypeOK
<1>1. CASE TestStep
  <2>1. tpc' # "block"
    BY <1>1 DEF TestStep, BlockQueues, SpawnEnd, TestSpawn, BurstSpawn, Fork, ChooseVictim,
       KillVictim, TestClose, TestEarly, KillOffice, CheckStats, UnblockQueues, EndDrain,
       StartFill, LiftLimit, Stop, Peek, Continue, EndFill, EndTest, Stopping
  <2> QED
    BY <2>1
<1>2. CASE TestNext /\ ~TestStep
  <2>1. UNCHANGED testVars
    BY <1>2 DEF TestNext, TestDrive, TestSell, TestTravel, TestDispatch,
       TestTimePasses, TestMain
  <2>2. ASSUME NEW p \in Passengers, TestTravel(p) PROVE FALSE
    <3>1. ppc[p] = "unborn"
      BY <2>1
    <3> QED
      BY <2>2, <3>1 DEF TestTravel, Travel, PassengerStep, Arrive, Register, JoinOffice,
         RequestTicket, ReceiveTicket, TicketRemoved, ClosedCheck, FindClosed, FindOpen,
         EnterStation, EntryRefused, EntryFails, BoardLoop, FindBus, RequestBoarding,
         ReceiveBoarding, BoardingRemoved, Leave, StopWaiting, Join, PassengerAt
  <2>3. CASE TestMain
    <3>1. mpc # "spawn" /\ mpc # "monitor" /\ MainStep
      BY <2>1, <2>3 DEF TestMain, Manage
    <3>2. \A p \in Passengers : ppc'[p] = "unborn"
      BY <2>1, <3>1, SignalsEndEarly DEF EndedEarly, MainStep, SpawnPassenger, StopSpawning, SeeStop, Monitor,
         StopDispatcher, TerminateChildren, KillChildren, MainAt
    <3> QED
      BY <2>1, <3>2
  <2>4. CASE ~TestMain
    <3>1. UNCHANGED ppc
      BY <1>2, <2>2, <2>4 DEF TestNext, TestDrive, TestSell, TestDispatch, TestTimePasses,
         Drive, Sell, Dispatch, TimePasses
    <3> QED
      BY <2>1, <3>1
  <2> QED
    BY <2>3, <2>4
<1>3. CASE UNCHANGED tvars
  BY <1>3 DEF tvars, vars
<1> QED
  BY <1>1, <1>2, <1>3

LEMMA CourseStep ==
    ASSUME TypeOK, SlotTestCourse, [TestNext]_tvars
    PROVE  SlotTestCourse'
<1> USE DEF SlotTestCourse, SlotTest
<1>1. CASE ProcessStep /\ UNCHANGED testVars
  <2> SUFFICES ASSUME SlotTest
               PROVE  ~g_block_station' /\ ~station_closed' /\ disp_pc' # "wake"
    BY <1>1
  <2>1. CASE Dispatch
    BY <2>1 DEF Dispatch, DispatcherStep, StopLoop, ForwardEarly, CloseStation,
       NothingToClose, WakeBlocked, CheckDriverHealth, FindOverdue,
       ForceDeparture, OverseerDone, CheckSimulationEnd, Shutdown, CleanUp, DispatcherAt
  <2>2. CASE Manage
    BY <2>2 DEF Manage, MainStep, SpawnPassenger, StopSpawning, SeeStop, Monitor,
       StopDispatcher, TerminateChildren, KillChildren
  <2>3. CASE (\E b \in Bus : TimePasses(b)) \/ UNCHANGED vars
    BY <2>3 DEF TimePasses, vars
  <2>4. ASSUME NEW b \in Bus, Drive(b)
        PROVE  UNCHANGED <<g_block_station, station_closed, disp_pc>>
    BY <2>4 DEF Drive, DriverStep, DriverStart, CheckShutdown, Role, Recv,
       RecvRemoved, Grant, Deny, EntranceLock, TakeSeats, Answer, Check, Switch,
       Depart, Return, DriverExit
  <2>5. ASSUME NEW p \in Passengers, Travel(p)
        PROVE  UNCHANGED <<g_block_station, station_closed, disp_pc>>
    BY <2>5 DEF Travel, PassengerStep, Arrive, Register, JoinOffice, RequestTicket,
       ReceiveTicket, TicketRemoved, ClosedCheck, FindClosed, FindOpen, EnterStation,
       EntryRefused, EntryFails, BoardLoop, FindBus, RequestBoarding, ReceiveBoarding,
       BoardingRemoved, Leave, StopWaiting, Join
  <2>6. ASSUME NEW o \in Office, Sell(o)
        PROVE  UNCHANGED <<g_block_station, station_closed, disp_pc>>
    BY <2>6 DEF Sell, OfficeStep, OfficeCheck, TakeRequest, QueueRemoved, IssueTicket,
       DrainOne, DrainDone
  <2> QED
    BY <1>1, <2>1, <2>2, <2>3, <2>4, <2>5, <2>6 DEF ProcessStep
<1>2. CASE TestStep
  <2>1. SlotTest' => SlotTest
    BY <1>2 DEF TestStep, BlockQueues, SpawnEnd, TestSpawn, BurstSpawn, Fork, ChooseVictim,
       KillVictim, TestClose, TestEarly, KillOffice, CheckStats, UnblockQueues, EndDrain,
       StartFill, LiftLimit, Stop, Peek, Continue, EndFill, EndTest
  <2>2. CASE SlotTest
    BY <1>2, <2>2, SlotTestStep DEF BlockQueues, UnblockQueues, QuietStep
  <2> QED
    BY <2>1, <2>2
<1> QED
  BY <1>1, <1>2, ProcessOrTest

-----------------------------------------------------------------------------
(* The ticket queue in tests 6 and 8: nobody gets a slot, so there is no request,
   and no office issues a ticket.                                            *)
TicketsIdle ==
    /\ ticket_queue = <<>> /\ tickets_issued = 0
    /\ \A o \in Office : opc[o] # "process"

NoTicketSlot == ipc_exists => sem["ticket_slots"] = 0

LEMMA TicketsStayIdle ==
    ASSUME TypeOK, TicketsIdle, ProcessStep, \A p \in Passengers : ~RequestTicket(p)
    PROVE  TicketsIdle'
<1> USE SlotTypes DEF TicketsIdle
<1>1. ASSUME NEW p \in Passengers, Travel(p) PROVE TicketsIdle'
  <2>1. UNCHANGED <<ticket_queue, tickets_issued, opc>>
    BY <1>1 DEF Travel, PassengerStep, Arrive, Register, JoinOffice,
       ReceiveTicket, TicketRemoved, ClosedCheck, FindClosed, FindOpen, EnterStation,
       EntryRefused, EntryFails, BoardLoop, FindBus, RequestBoarding, ReceiveBoarding,
       BoardingRemoved, Leave, StopWaiting, Join
  <2> QED
    BY <2>1
<1>2. ASSUME NEW b \in Bus, Drive(b) PROVE TicketsIdle'
  <2>1. UNCHANGED <<ticket_queue, tickets_issued, opc>>
    BY <1>2 DEF Drive, DriverStep, DriverStart, CheckShutdown, Role, Recv,
       RecvRemoved, Grant, Deny, EntranceLock, TakeSeats, Answer, Check, Switch,
       Depart, Return, DriverExit
  <2> QED
    BY <2>1
<1>3. ASSUME NEW o \in Office, Sell(o) PROVE TicketsIdle'
  <2>1. OfficeCheck(o) \/ QueueRemoved(o) \/ DrainDone(o)
    BY <1>3 DEF Sell, OfficeStep, TakeRequest, IssueTicket, DrainOne, OfficeAt
  <2> QED
    BY <2>1 DEF OfficeCheck, QueueRemoved, DrainDone, OfficeAt
<1>4. CASE Dispatch
  <2>1. UNCHANGED <<ticket_queue, tickets_issued, opc>>
    BY <1>4 DEF Dispatch, DispatcherStep, StopLoop, ForwardEarly, CloseStation,
       NothingToClose, WakeBlocked, CheckDriverHealth, FindOverdue, ForceDeparture,
       OverseerDone, CheckSimulationEnd, Shutdown, CleanUp
  <2> QED
    BY <2>1
<1>5. CASE Manage
  <2>1. /\ UNCHANGED <<ticket_queue, tickets_issued>>
        /\ opc' = opc \/ opc' = [o \in Office |-> "exit"]
    BY <1>5 DEF Manage, MainStep, SpawnPassenger, StopSpawning, SeeStop, Monitor,
       StopDispatcher, TerminateChildren, KillChildren
  <2> QED
    BY <2>1
<1>6. CASE (\E b \in Bus : TimePasses(b)) \/ UNCHANGED vars
  BY <1>6 DEF TimePasses, vars
<1> QED
  BY <1>1, <1>2, <1>3, <1>4, <1>5, <1>6 DEF ProcessStep

(* What holds of the slots of a queue in tests 6 to 8, blocked or not.          *)
TicketBooks ==
    SlotTest =>
        IF Blocked /\ test \in {6, 8}
        THEN TicketsIdle /\ NoTicketSlot
        ELSE TicketSlotsAccounted /\ (tpc = "block" => TicketsIdle)

LEMMA BlockedTicketsStep ==
    ASSUME TypeOK, SlotTest, SlotTestCourse, SlotTestCourse', ProcessStep, UNCHANGED testVars,
           TicketsIdle, NoTicketSlot
    PROVE  TicketsIdle' /\ NoTicketSlot'
<1>1. \A p \in Passengers : ~RequestTicket(p)
  BY DEF RequestTicket, CanLock, NoTicketSlot
<1>2. TicketsIdle'
  BY <1>1, TicketsStayIdle
<1>3. ClosedBeforeWake /\ Counting'
  BY DEF SlotTestCourse, SlotTest, ClosedBeforeWake, Counting
<1>4. /\ ipc_exists' => ipc_exists
      /\ ipc_exists' => TicketSlotsOf(ticket_queue', sem') = TicketSlotsOf(ticket_queue, sem)
  BY <1>3, ProcessStepsAreSteps, TicketSlotsMove DEF SlotsAndRequestsMove
<1>5. Len(ticket_queue) = 0 /\ Len(ticket_queue') = 0
  BY <1>2 DEF TicketsIdle
<1>6. sem["ticket_slots"] \in Int /\ sem'["ticket_slots"] \in Int
  BY ProcessStepsAreSteps, NextTyped DEF TypeOK, ShmTypeOK, Semaphore
<1> QED
  BY <1>2, <1>4, <1>5, <1>6 DEF NoTicketSlot, TicketSlotsOf

LEMMA TicketBooksStep ==
    ASSUME TestTypeOK, SlotTestCourse, NobodyYet, TicketBooks, [TestNext]_tvars
    PROVE  TicketBooks'
<1>1. TypeOK /\ SlotTestCourse'
  BY CourseStep DEF TestTypeOK
<1> USE SlotTypes DEF TicketBooks, Blocked
<1>2. CASE ProcessStep /\ UNCHANGED testVars
  <2> SUFFICES ASSUME SlotTest PROVE TicketBooks'
    BY <1>2 DEF SlotTest
  <2>1. CASE Blocked /\ test \in {6, 8}
    BY <1>1, <1>2, <2>1, BlockedTicketsStep
  <2>2. CASE ~(Blocked /\ test \in {6, 8})
    <3>1. TicketSlotsAccounted'
      <4>1. ClosedBeforeWake
        BY DEF SlotTestCourse, ClosedBeforeWake
      <4> QED
        BY <1>1, <1>2, <2>2, <4>1, ProcessStepsAreSteps, TicketSlotsMove
           DEF SlotsAndRequestsMove, TicketSlotsAccounted, Counting, TicketSlotsOf
    <3>2. ASSUME tpc = "block" PROVE TicketsIdle'
      <4>1. \A p \in Passengers : ~RequestTicket(p)
        BY <3>2 DEF NobodyYet, RequestTicket, PassengerAt
      <4> QED
        BY <1>1, <1>2, <2>2, <3>2, <4>1, TicketsStayIdle
    <3> QED
      BY <1>2, <2>2, <3>1, <3>2
  <2> QED
    BY <2>1, <2>2
<1>3. CASE TestStep
  <2>1. CASE ~SlotTest
    <3>1. UNCHANGED test
      BY <1>3 DEF TestStep, BlockQueues, SpawnEnd, TestSpawn, BurstSpawn, Fork, ChooseVictim,
         KillVictim, TestClose, TestEarly, KillOffice, CheckStats, UnblockQueues, EndDrain,
         StartFill, LiftLimit, Stop, Peek, Continue, EndFill, EndTest
    <3> QED
      BY <2>1, <3>1 DEF SlotTest
  <2>2. CASE SlotTest /\ BlockQueues
    <3>1. /\ UNCHANGED <<ticket_queue, tickets_issued, opc, ipc_exists, test, station_closed,
                         disp_pc>>
          /\ sem'["ticket_slots"] = IF test \in {6, 8} THEN 0 ELSE sem["ticket_slots"]
          /\ tpc = "block" /\ tpc' = "spawn"
      BY <2>2 DEF BlockQueues, BlockedSlots, Semaphore
    <3> QED
      BY <2>2, <3>1 DEF TicketsIdle, NoTicketSlot, TicketSlotsAccounted, SlotTest
  <2>3. CASE SlotTest /\ UnblockQueues
    <3>1. /\ UNCHANGED <<ticket_queue, ipc_exists, test, station_closed, disp_pc>>
          /\ sem'["ticket_slots"] = IF test \in {6, 8} THEN MAX_TICKET_QUEUE_REQUESTS
                                                       ELSE sem["ticket_slots"]
          /\ tpc = "run" /\ tpc' = "drain"
      BY <2>3 DEF UnblockQueues, Unblocked, BlockedSlots, Semaphore
    <3> QED
      BY <2>3, <3>1, SizesAssumption DEF TicketsIdle, TicketSlotsAccounted, SlotTest
  <2>4. CASE SlotTest /\ QuietStep /\ UNCHANGED test
    <3>1. /\ UNCHANGED <<ticket_queue, tickets_issued, opc, ipc_exists, sem, station_closed,
                         disp_pc>>
          /\ Blocked' <=> Blocked
          /\ tpc' # "block"
      BY <2>4 DEF QuietStep
    <3> QED
      BY <2>4, <3>1 DEF TicketsIdle, NoTicketSlot, TicketSlotsAccounted, SlotTest
  <2> QED
    BY <1>1, <1>3, <2>1, <2>2, <2>3, <2>4, SlotTestStep
<1> QED
  BY <1>2, <1>3, ProcessOrTest

-----------------------------------------------------------------------------
(* The boarding queue in tests 7 and 8: nobody gets a slot, so there is no
   request, no driver has one in hand, and nobody boards.                    *)
BoardingIdle ==
    /\ \A t \in BoardingType : boarding_queue[t] = <<>>
    /\ boarded_people = 0
    /\ \A b \in Bus : dpc[b] \notin {"board", "entrance", "seating"}
    /\ \A p \in Passengers : ppc[p] # "board_wait"

NoBoardingSlot == ipc_exists => sem["boarding_slots"] = 0

LEMMA BoardingStaysIdle ==
    ASSUME TypeOK, BoardingIdle, ProcessStep, \A p \in Passengers : ~RequestBoarding(p)
    PROVE  BoardingIdle'
<1> USE BoardingTypes DEF BoardingIdle
<1>1. ASSUME NEW p \in Passengers, Travel(p) PROVE BoardingIdle'
  <2>1. UNCHANGED <<boarding_queue, boarded_people, dpc>>
    BY <1>1 DEF Travel, PassengerStep, Arrive, Register, JoinOffice, RequestTicket,
       ReceiveTicket, TicketRemoved, ClosedCheck, FindClosed, FindOpen, EnterStation,
       EntryRefused, EntryFails, BoardLoop, FindBus, ReceiveBoarding,
       BoardingRemoved, Leave, StopWaiting, Join
  <2>2. \A q \in Passengers : ppc'[q] = ppc[q] \/ ppc'[q] # "board_wait"
    <3>1. CASE BoardLoop(p) \/ FindBus(p) \/ ReceiveBoarding(p) \/ BoardingRemoved(p)
               \/ Leave(p) \/ StopWaiting(p) \/ Join(p)
      BY <3>1 DEF BoardLoop, FindBus, ReceiveBoarding, BoardingRemoved, Leave, StopWaiting,
         Join, PassengerAt
    <3>2. CASE ClosedCheck(p) \/ FindClosed(p) \/ FindOpen(p) \/ EnterStation(p)
               \/ EntryRefused(p)
      BY <3>2 DEF ClosedCheck, FindClosed, FindOpen, EnterStation, EntryRefused, EntryFails,
         PassengerAt
    <3>3. CASE Arrive(p) \/ Register(p) \/ JoinOffice(p) \/ RequestTicket(p)
               \/ ReceiveTicket(p) \/ TicketRemoved(p)
      BY <3>3 DEF Arrive, Register, JoinOffice, RequestTicket, ReceiveTicket, TicketRemoved,
         PassengerAt
    <3> QED
      BY <1>1, <3>1, <3>2, <3>3 DEF Travel, PassengerStep
  <2> QED
    BY <2>1, <2>2
<1>2. ASSUME NEW b \in Bus, Drive(b) PROVE BoardingIdle'
  <2>1. ~Recv(b) /\ ~Grant(b) /\ ~Deny(b) /\ ~EntranceLock(b) /\ ~TakeSeats(b)
    BY DEF Recv, RecvType, Grant, Deny, EntranceLock, TakeSeats, DriverAt
  <2>2. UNCHANGED <<boarding_queue, boarded_people, ppc>>
    BY <1>2, <2>1 DEF Drive, DriverStep, DriverStart, CheckShutdown, Role, RecvRemoved,
       Answer, Check, Switch, Depart, Return, DriverExit
  <2>3. \E to \in DriverPC \ {"board", "entrance", "seating"} : dpc' = [dpc EXCEPT ![b] = to]
    BY <1>2, <2>1 DEF Drive, DriverStep, DriverStart, CheckShutdown, Role, RecvRemoved,
       Answer, Check, Switch, Depart, Return, DriverExit, DriverAt, AfterRequest, StayAt,
       DriverPC
  <2> QED
    BY <2>2, <2>3
<1>3. ASSUME NEW o \in Office, Sell(o) PROVE BoardingIdle'
  <2>1. UNCHANGED <<boarding_queue, boarded_people, dpc, ppc>>
    BY <1>3 DEF Sell, OfficeStep, OfficeCheck, TakeRequest, QueueRemoved, IssueTicket,
       DrainOne, DrainDone
  <2> QED
    BY <2>1
<1>4. CASE Dispatch
  <2>1. UNCHANGED <<boarding_queue, boarded_people, dpc, ppc>>
    BY <1>4 DEF Dispatch, DispatcherStep, StopLoop, ForwardEarly, CloseStation,
       NothingToClose, WakeBlocked, CheckDriverHealth, FindOverdue, ForceDeparture,
       OverseerDone, CheckSimulationEnd, Shutdown, CleanUp
  <2> QED
    BY <2>1
<1>5. CASE Manage
  <2>1. UNCHANGED <<boarding_queue, boarded_people>>
    BY <1>5 DEF Manage, MainStep, SpawnPassenger, StopSpawning, SeeStop, Monitor,
       StopDispatcher, TerminateChildren, KillChildren
  <2>2. \A b \in Bus : dpc'[b] = dpc[b] \/ dpc'[b] \in Gone
    BY <1>5 DEF Manage, MainStep, SpawnPassenger, StopSpawning, SeeStop, Monitor,
       StopDispatcher, TerminateChildren, KillChildren, Reaped, Gone
  <2>3. \A p \in Passengers : ppc'[p] \in {ppc[p], "arrive", "gone", "unborn"}
    BY <1>5 DEF Manage, MainStep, SpawnPassenger, StopSpawning, SeeStop, Monitor,
       StopDispatcher, TerminateChildren, KillChildren, PassengerAt
  <2> QED
    BY <2>1, <2>2, <2>3 DEF Gone
<1>6. CASE (\E b \in Bus : TimePasses(b)) \/ UNCHANGED vars
  BY <1>6 DEF TimePasses, vars
<1> QED
  BY <1>1, <1>2, <1>3, <1>4, <1>5, <1>6 DEF ProcessStep

BoardingBooks ==
    SlotTest =>
        IF Blocked /\ test \in {7, 8}
        THEN BoardingIdle /\ NoBoardingSlot
        ELSE BoardingSlotsAccounted /\ (tpc = "block" => BoardingIdle)

LEMMA BlockedBoardingStep ==
    ASSUME TypeOK, ProcessStep, BoardingIdle, NoBoardingSlot
    PROVE  BoardingIdle' /\ NoBoardingSlot'
<1>1. \A p \in Passengers : ~RequestBoarding(p) /\ ~ReceiveBoarding(p)
  BY DEF RequestBoarding, ReceiveBoarding, CanLock, NoBoardingSlot, BoardingIdle, PassengerAt
<1>2. BoardingIdle'
  BY <1>1, BoardingStaysIdle
<1>3. NoSlotMoves
  BY <1>1, ProcessStepsAreSteps, OthersKeepSlots
<1> QED
  BY <1>2, <1>3 DEF NoSlotMoves, NoBoardingSlot

(* A step of the processes, as in the proof of BoardingSlotsTheorem.            *)
LEMMA BoardingSlotsStep ==
    ASSUME TypeOK, BoardingSlotsAccounted, [Next]_vars PROVE BoardingSlotsAccounted'
<1>1. ASSUME NoSlotMoves PROVE BoardingSlotsAccounted'
  BY <1>1 DEF BoardingSlotsAccounted, NoSlotMoves, Waiting
<1> QED
  BY <1>1, OthersKeepSlots, RequestTakesSlot, ResponseReturnsSlot

LEMMA BoardingBooksStep ==
    ASSUME TestTypeOK, SlotTestCourse, NobodyYet, BoardingBooks, [TestNext]_tvars
    PROVE  BoardingBooks'
<1>1. TypeOK
  BY DEF TestTypeOK
<1> USE DEF BoardingBooks, Blocked
<1>2. CASE ProcessStep /\ UNCHANGED testVars
  <2> SUFFICES ASSUME SlotTest PROVE BoardingBooks'
    BY <1>2 DEF SlotTest
  <2>1. CASE Blocked /\ test \in {7, 8}
    BY <1>1, <1>2, <2>1, BlockedBoardingStep
  <2>2. CASE ~(Blocked /\ test \in {7, 8})
    <3>1. BoardingSlotsAccounted'
      BY <1>1, <1>2, <2>2, ProcessStepsAreSteps, BoardingSlotsStep
    <3>2. ASSUME tpc = "block" PROVE BoardingIdle'
      <4>1. \A p \in Passengers : ~RequestBoarding(p)
        BY <3>2 DEF NobodyYet, RequestBoarding, PassengerAt
      <4> QED
        BY <1>1, <1>2, <2>2, <3>2, <4>1, BoardingStaysIdle
    <3> QED
      BY <1>2, <2>2, <3>1, <3>2
  <2> QED
    BY <2>1, <2>2
<1>3. CASE TestStep
  <2>1. CASE ~SlotTest
    <3>1. UNCHANGED test
      BY <1>3 DEF TestStep, BlockQueues, SpawnEnd, TestSpawn, BurstSpawn, Fork, ChooseVictim,
         KillVictim, TestClose, TestEarly, KillOffice, CheckStats, UnblockQueues, EndDrain,
         StartFill, LiftLimit, Stop, Peek, Continue, EndFill, EndTest
    <3> QED
      BY <2>1, <3>1 DEF SlotTest
  <2>2. CASE SlotTest /\ BlockQueues
    <3>1. /\ UNCHANGED <<boarding_queue, boarded_people, dpc, ppc, ipc_exists, test>>
          /\ sem'["boarding_slots"] = IF test \in {7, 8} THEN 0 ELSE sem["boarding_slots"]
          /\ tpc = "block" /\ tpc' = "spawn"
      BY <2>2 DEF BlockQueues, BlockedSlots, Semaphore
    <3> QED
      BY <2>2, <3>1 DEF BoardingIdle, NoBoardingSlot, BoardingSlotsAccounted, SlotTest
  <2>3. CASE SlotTest /\ UnblockQueues
    <3>1. /\ UNCHANGED <<boarding_queue, boarded_people, dpc, ppc, ipc_exists, test>>
          /\ sem'["boarding_slots"] = IF test \in {7, 8} THEN MAX_BOARDING_QUEUE_REQUESTS
                                                         ELSE sem["boarding_slots"]
          /\ tpc = "run" /\ tpc' = "drain"
      BY <2>3 DEF UnblockQueues, Unblocked, BlockedSlots, Semaphore
    <3>2. CASE test \in {7, 8}
      <4>1. {p \in Passengers : ppc'[p] = "board_wait"} = {}
        BY <2>3, <3>1, <3>2 DEF BoardingIdle
      <4>2. BoardingSlotsAccounted'
        BY <3>1, <3>2, <4>1, FS_EmptySet, SizesAssumption DEF BoardingSlotsAccounted
      <4> QED
        BY <3>1, <4>2
    <3>3. CASE test \notin {7, 8}
      BY <2>3, <3>1, <3>3 DEF BoardingSlotsAccounted
    <3> QED
      BY <3>2, <3>3
  <2>4. CASE SlotTest /\ QuietStep /\ UNCHANGED test
    <3>1. /\ UNCHANGED <<boarding_queue, boarded_people, ipc_exists, sem>>
          /\ Blocked' <=> Blocked
          /\ tpc' # "block"
          /\ {p \in Passengers : ppc'[p] = "board_wait"}
               = {p \in Passengers : ppc[p] = "board_wait"}
      BY <2>4 DEF QuietStep
    <3>2. BoardingIdle => BoardingIdle'
      BY <2>4, <3>1 DEF QuietStep, BoardingIdle, Gone
    <3>3. BoardingSlotsAccounted => BoardingSlotsAccounted'
      BY <3>1 DEF BoardingSlotsAccounted
    <3> QED
      BY <2>4, <3>1, <3>2, <3>3 DEF NoBoardingSlot, SlotTest
  <2> QED
    BY <1>1, <1>3, <2>1, <2>2, <2>3, <2>4, SlotTestStep
<1> QED
  BY <1>2, <1>3, ProcessOrTest

-----------------------------------------------------------------------------
(* The two books, and the course of the tests they rest on.                    *)
SlotInvariant == SlotTestCourse /\ NobodyYet /\ TicketBooks /\ BoardingBooks

LEMMA SlotInvariantHolds == TestSpec => []SlotInvariant
<1>1. TestInit => SlotInvariant
  <2> SUFFICES ASSUME TestInit PROVE SlotInvariant
    OBVIOUS
  <2>1. /\ tpc = IF test = 0 THEN "over" ELSE "block"
        /\ ~g_block_station /\ ~station_closed /\ disp_pc = "early"
    BY DEF TestInit, UpInit, OthersInit, DispatcherInit, ShmInit
  <2>2. /\ \A p \in Passengers : ppc[p] = "unborn"
        /\ \A o \in Office : opc[o] = "top"
        /\ \A b \in Bus : dpc[b] = "top"
    BY DEF TestInit, UpInit, OthersInit, PassengerInit, OfficeInit, DriverInit
  <2>3. /\ ticket_queue = <<>> /\ \A t \in BoardingType : boarding_queue[t] = <<>>
        /\ tickets_issued = 0 /\ boarded_people = 0
        /\ sem["ticket_slots"] = MAX_TICKET_QUEUE_REQUESTS
        /\ sem["boarding_slots"] = MAX_BOARDING_QUEUE_REQUESTS
    BY DEF TestInit, UpInit, ShmInit, FreshIpc, Semaphore
  <2>4. SlotTestCourse /\ NobodyYet
    BY <2>1, <2>2 DEF SlotTestCourse, NobodyYet, SlotTest
  <2>5. TicketBooks
    BY <2>1, <2>2, <2>3, SizesAssumption
       DEF TicketBooks, TicketsIdle, TicketSlotsAccounted, Blocked, SlotTest
  <2>6. BoardingBooks
    <3>1. Cardinality({p \in Passengers : ppc[p] = "board_wait"}) = 0
      <4>1. {p \in Passengers : ppc[p] = "board_wait"} = {}
        BY <2>2
      <4> QED
        BY <4>1, FS_EmptySet
    <3>2. BoardingSlotsAccounted
      BY <2>3, <3>1, SizesAssumption DEF BoardingSlotsAccounted
    <3>3. BoardingIdle
      <4>1. \A b \in Bus : dpc[b] \notin {"board", "entrance", "seating"}
        BY <2>2
      <4>2. \A p \in Passengers : ppc[p] # "board_wait"
        BY <2>2
      <4> QED
        BY <2>3, <4>1, <4>2, Zenon DEF BoardingIdle
    <3>4. SlotTest => ~Blocked
      BY <2>1 DEF SlotTest, Blocked
    <3> QED
      BY <3>2, <3>3, <3>4 DEF BoardingBooks
  <2> QED
    BY <2>4, <2>5, <2>6 DEF SlotInvariant
<1>2. TestTypeOK /\ SlotInvariant /\ [TestNext]_tvars => SlotInvariant'
  <2> SUFFICES ASSUME TestTypeOK, SlotInvariant, [TestNext]_tvars PROVE SlotInvariant'
    OBVIOUS
  <2> QED
    BY CourseStep, NobodyYetStep, TicketBooksStep, BoardingBooksStep
       DEF SlotInvariant, TestTypeOK
<1> QED
  BY <1>1, <1>2, TestTyped, PTL DEF TestSpec

(* While tests 6 to 8 hold the slots, the queues stay empty, no ticket is issued
   and nobody boards.                                                        *)
THEOREM BlockedQueuesTheorem == TestSpec => []BlockedQueuesStayEmpty
<1>1. TestTypeOK /\ SlotInvariant => BlockedQueuesStayEmpty
  BY DEF SlotInvariant, TicketBooks, BoardingBooks, TicketsIdle, BoardingIdle,
     BlockedQueuesStayEmpty, SlotTest
<1> QED
  BY <1>1, SlotInvariantHolds, TestTyped, PTL

(* When tests 6 to 8 have given the slots back, free slots and requests add up
   again, for both queues.                                                   *)
THEOREM SlotsRestoredTheorem == TestSpec => []SlotsRestored
<1>1. SlotInvariant => SlotsRestored
  BY DEF SlotInvariant, TicketBooks, BoardingBooks, SlotsRestored, SlotTest
<1> QED
  BY <1>1, SlotInvariantHolds, PTL
=============================================================================
