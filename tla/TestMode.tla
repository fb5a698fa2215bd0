------------------------------- MODULE TestMode -------------------------------
(* main --test1 ... --test11 (run_test of main.c): instead of monitoring the   *)
(* simulation, main blocks semaphores, kills and stops its children, and then  *)
(* shuts down whatever they do. Test 0 is the normal mode.                     *)
EXTENDS CityBusProperties

CONSTANTS
    Tests,          \* the tests main may be started with
    EARLY_SIGNALS   \* SIGUSR1s sent by test 3

ASSUME TestsAssumption ==
    /\ Tests \subseteq 0 .. 11
    /\ EARLY_SIGNALS \in Nat \ {0}

VARIABLES
    test,    \* g_test_mode
    tpc,     \* where main is in its test
    round,   \* SIGUSR1s test 3 has sent
    victim   \* the driver test 1 has chosen, -1 without one

testVars == <<test, tpc, round, victim>>
tvars == <<vars, testVars>>

(* block, spawn: before the passengers, and while they are forked; run: the
   test proper; kill: test 1 has chosen its victim; drain: after tests 6 to 8;
   stopped, peeked: a child is stopped; fill, lifted, filled: test 11 before and
   after that; over: back in main().                                         *)
TestPC == {"block", "spawn", "run", "kill", "drain", "stopped", "peeked", "fill",
           "lifted", "filled", "over"}

(* The variables of the processes and of the test have their types; test 3 sends
   no more signals than it is to.                                            *)
TestTypeOK ==
    /\ TypeOK
    /\ test \in Tests
    /\ tpc \in TestPC
    /\ round \in 0 .. EARLY_SIGNALS
    /\ victim \in Bus \cup {-1}

TestInit ==
    /\ UpInit
    /\ test \in Tests
    /\ tpc = IF test = 0 THEN "over" ELSE "block"
    /\ round = 0
    /\ victim = -1

TestAt(from, to) == tpc = from /\ tpc' = to

-----------------------------------------------------------------------------
(* SIGSTOP takes effect until SIGCONT: driver 0 in test 10, office 0 in test 9,
   all offices in test 11.                                                   *)
DriverTarget(b) == test = 10 /\ b = 0
OfficeTarget(o) == test = 11 \/ (test = 9 /\ o = 0)

Stopping == tpc \in {"stopped", "peeked"}
DriverStopped(b) == Stopping /\ DriverTarget(b)
OfficeStopped(o) == Stopping /\ OfficeTarget(o)

TestDrive(b) == ~DriverStopped(b) /\ Drive(b) /\ UNCHANGED testVars

TestSell(o) == ~OfficeStopped(o) /\ Sell(o) /\ UNCHANGED testVars

TestTravel(p) == Travel(p) /\ UNCHANGED testVars

TestDispatch == Dispatch /\ UNCHANGED testVars

TestTimePasses(b) == TimePasses(b) /\ UNCHANGED testVars

(* The normal mode, or the shutdown after a test.                              *)
TestMain ==
    /\ test = 0 \/ mpc \in {"finish", "terminate", "kill"}
    /\ Manage /\ UNCHANGED testVars

-----------------------------------------------------------------------------
(* Tests 6 to 8 take all slots before the first passenger is there.            *)
BlockedSlots == {s \in {"ticket_slots", "boarding_slots"} :
                    test \in (IF s = "ticket_slots" THEN {6, 8} ELSE {7, 8})}

BlockQueues ==
    /\ TestAt("block", "spawn")
    /\ sem' = [s \in Semaphore |-> IF s \in BlockedSlots THEN 0 ELSE sem[s]]
    /\ UNCHANGED <<flagVars, counterVars, busVars, ticketQueues, boardingQueues,
                   ipc_exists, driverVars, passengerVars, officeVars,
                   dispatcherVars, mpc, test, round, victim>>

Fork(p) ==
    /\ PassengerAt(p, "unborn", "arrive")
    /\ UNCHANGED <<shmVars, d_running, g_early_departure, was_active, request,
                   p_running, has_ticket, boarded, officeVars, dispatcherVars,
                   mpc, testVars>>

(* Mutant: passengers come before the slots are taken.                         *)
TestSpawnFirst(p) == tpc \in {"block", "spawn"} /\ Fork(p) /\ dpc' = Reaped

TestSpawn(p) == tpc = "spawn" /\ Fork(p) /\ dpc' = Reaped

(* The limit is reached, or fork fails.                                        *)
SpawnEnd == TestAt("spawn", "run") /\ UNCHANGED <<vars, test, round, victim>>

-----------------------------------------------------------------------------
(* Test 1: the active driver is looked up under the mutex, and killed later.   *)
ChooseVictim ==
    /\ test = 1 /\ TestAt("run", "kill")
    /\ victim' = IF active_bus_id >= 0 /\ driver_pids[active_bus_id]
                 THEN active_bus_id ELSE -1
    /\ UNCHANGED <<vars, test, round>>

KillVictim ==
    /\ TestAt("kill", "over")
    /\ IF victim \in Bus /\ dpc[victim] \notin Gone
       THEN DriverKill(victim)
       ELSE UNCHANGED <<shmVars, driverVars>>
    /\ UNCHANGED <<passengerVars, officeVars, dispatcherVars, mpc, test, round,
                   victim>>

(* Test 2: SIGUSR2 to the dispatcher, and on to the shutdown.                  *)
TestClose ==
    /\ test = 2 /\ TestAt("run", "over")
    /\ g_block_station' = TRUE
    /\ UNCHANGED <<shmVars, driverVars, passengerVars, officeVars, disp_pc,
                   disp_running, overseen, g_early_depart, mpc, test, round,
                   victim>>

(* Mutant: one signal too many.                                                *)
TestEarlyAgain ==
    /\ test = 3
    /\ TestAt("run", IF round = EARLY_SIGNALS THEN "over" ELSE "run")
    /\ round' = round + 1
    /\ g_early_depart' = TRUE
    /\ UNCHANGED <<shmVars, driverVars, passengerVars, officeVars, disp_pc,
                   disp_running, overseen, g_block_station, mpc, test, victim>>

(* Test 3: SIGUSR1 again and again; two may come before the dispatcher looks.  *)
TestEarly ==
    /\ test = 3
    /\ TestAt("run", IF round + 1 = EARLY_SIGNALS THEN "over" ELSE "run")
    /\ round' = round + 1
    /\ g_early_depart' = TRUE
    /\ UNCHANGED <<shmVars, driverVars, passengerVars, officeVars, disp_pc,
                   disp_running, overseen, g_block_station, mpc, test, victim>>

(* Test 4: the customer of the killed office gets no answer.                   *)
KillOffice ==
    /\ test = 4 /\ TestAt("run", "over")
    /\ opc' = [opc EXCEPT ![0] = "exit"]
    /\ frozen' \in {frozen, frozen \/ OfficeSection(0)}
    /\ UNCHANGED <<shmFlags, counterVars, busVars, ipcVars, driverVars,
                   passengerVars, o_running, customer, dispatcherVars, mpc, test,
                   round, victim>>

(* Test 5 only reads.                                                          *)
CheckStats ==
    /\ test = 5 /\ TestAt("run", "over") /\ MutexFree
    /\ UNCHANGED <<vars, test, round, victim>>

-----------------------------------------------------------------------------
(* Mutant: the slots are not given back.                                       *)
KeepBlocked == sem

(* Tests 6 to 8: the slots are given back; drained, or 120 seconds later, the
   test is over.                                                             *)
Unblocked ==
    [s \in Semaphore |->
        IF s \notin BlockedSlots THEN sem[s]
        ELSE IF s = "ticket_slots" THEN MAX_TICKET_QUEUE_REQUESTS
        ELSE MAX_BOARDING_QUEUE_REQUESTS]

UnblockQueues ==
    /\ test \in {6, 7, 8} /\ TestAt("run", "drain")
    /\ sem' = Unblocked
    /\ UNCHANGED <<flagVars, counterVars, busVars, ticketQueues, boardingQueues,
                   ipc_exists, driverVars, passengerVars, officeVars,
                   dispatcherVars, mpc, test, round, victim>>

EndDrain ==
    /\ TestAt("drain", "over") /\ MutexFree
    /\ UNCHANGED <<vars, test, round, victim>>

-----------------------------------------------------------------------------
(* Test 11 tells the dispatcher to go on and lifts the limit of the slots. The
   flag is written under the mutex, the semaphore after it. The
   kernel's own limit of the queue is not reached by the instances here.     *)
StartFill ==
    /\ test = 11 /\ TestAt("run", "fill") /\ MutexFree
    /\ test_fill_queue' = TRUE
    /\ UNCHANGED <<simulation_running, station_open, boarding_allowed,
                   spawning_stopped, station_closed, frozen, counterVars, busVars,
                   ipcVars, driverVars, passengerVars, officeVars,
                   dispatcherVars, mpc, test, round, victim>>

LiftLimit ==
    /\ TestAt("fill", "lifted")
    /\ sem' = [sem EXCEPT !["ticket_slots"] = WAKE_ALL]
    /\ UNCHANGED <<flagVars, counterVars, busVars, ticketQueues, boardingQueues,
                   ipc_exists, driverVars, passengerVars, officeVars,
                   dispatcherVars, mpc, test, round, victim>>

(* SIGSTOP. The process may be anywhere, in a section of the mutex too.        *)
Stop ==
    /\ \/ test \in {9, 10} /\ TestAt("run", "stopped")
       \/ test = 11 /\ TestAt("lifted", "stopped")
    /\ frozen' \in BOOLEAN
    /\ frozen' => \/ \E b \in Bus : DriverTarget(b) /\ DriverSection(b)
                  \/ \E o \in Office : OfficeTarget(o) /\ OfficeSection(o)
    /\ UNCHANGED <<shmFlags, counterVars, busVars, ipcVars, driverVars,
                   passengerVars, officeVars, dispatcherVars, mpc, test, round,
                   victim>>

(* Mutant: the numbers are read under sem_lock.                                *)
CanPeekLocked == MutexFree

(* sem_trylock returns at once: main reads the numbers, or says that the mutex
   is busy.                                                                  *)
CanPeek == TRUE

Peek ==
    /\ test = 10 /\ TestAt("stopped", "peeked")
    /\ CanPeek
    /\ UNCHANGED <<vars, test, round, victim>>

(* The burst of test 11, while no office takes requests.                       *)
BurstSpawn(p) == test = 11 /\ tpc = "stopped" /\ Fork(p) /\ UNCHANGED dpc

(* SIGCONT: the section the process was stopped in is still to be done.        *)
Continue ==
    /\ tpc = IF test = 10 THEN "peeked" ELSE "stopped"
    /\ Stopping /\ tpc' = IF test = 11 THEN "filled" ELSE "over"
    /\ frozen' = FALSE
    /\ UNCHANGED <<shmFlags, counterVars, busVars, ipcVars, driverVars,
                   passengerVars, officeVars, dispatcherVars, mpc, test, round,
                   victim>>

EndFill ==
    /\ TestAt("filled", "over") /\ MutexFree
    /\ test_fill_queue' = FALSE
    /\ UNCHANGED <<simulation_running, station_open, boarding_allowed,
                   spawning_stopped, station_closed, frozen, counterVars, busVars,
                   ipcVars, driverVars, passengerVars, officeVars,
                   dispatcherVars, mpc, test, round, victim>>

(* "Test finished. Shutting down": at once, whatever is under way.             *)
EndTest ==
    /\ test # 0 /\ tpc = "over"
    /\ MainAt("spawn", "finish")
    /\ UNCHANGED <<shmVars, driverVars, passengerVars, officeVars,
                   dispatcherVars, testVars>>

TestStep ==
    \/ BlockQueues \/ SpawnEnd
    \/ \E p \in Passengers : TestSpawn(p) \/ BurstSpawn(p)
    \/ ChooseVictim \/ KillVictim \/ TestClose \/ TestEarly \/ KillOffice
    \/ CheckStats \/ UnblockQueues \/ EndDrain
    \/ StartFill \/ LiftLimit \/ Stop \/ Peek \/ Continue \/ EndFill \/ EndTest

TestNext ==
    \/ \E b \in Bus : TestDrive(b) \/ TestTimePasses(b)
    \/ \E p \in Passengers : TestTravel(p)
    \/ \E o \in Office : TestSell(o)
    \/ TestDispatch \/ TestMain \/ TestStep

(* As in CityBusProperties; a process that is stopped, or waits for a mutex
   that is not free, is not scheduled. The loops of the tests are bounded.   *)
TestSpec ==
    /\ TestInit /\ [][TestNext]_tvars
    /\ \A b \in Bus : WF_tvars(TestDrive(b)) /\ WF_tvars(TestTimePasses(b))
    /\ \A p \in Passengers : WF_tvars(TestTravel(p))
    /\ \A o \in Office : WF_tvars(TestSell(o))
    /\ WF_tvars(TestDispatch) /\ WF_tvars(TestMain) /\ WF_tvars(TestStep)

-----------------------------------------------------------------------------
(* main.c, tests 6 to 8: until the slots are given back "no ticket requests
   sent, ticket offices idle", "no boarding requests sent to driver".        *)
Blocked == tpc \in {"spawn", "run"}

BlockedQueuesStayEmpty ==
    Blocked =>
        /\ test \in {6, 8} => ticket_queue = <<>> /\ tickets_issued = 0
        /\ test \in {7, 8} => /\ \A t \in BoardingType : boarding_queue[t] = <<>>
                              /\ boarded_people = 0

(* Once tests 6 to 8 have given the slots back their number is right again,
   with all the passengers that waited for them: SETVAL overwrites the
   semaphore, and would forget slots that are in use.                        *)
SlotsRestored ==
    ~Blocked /\ tpc # "block" /\ test \in {6, 7, 8} =>
        TicketSlotsAccounted /\ BoardingSlotsAccounted
=============================================================================
