------------------------------ MODULE Dispatcher ------------------------------
(* The dispatcher process (dispatcher.c): the user's signals, the watchdog of *)
(* the drivers, the overseer of departures, the end of the simulation.        *)
(* It signals drivers and sees whether their processes exist: it extends      *)
(* Driver for that.                                                           *)
EXTENDS Driver

VARIABLES
    disp_pc,         \* where the dispatcher is in main() of dispatcher.c
    disp_running,    \* g_running of the dispatcher
    overseen,        \* the bus check_bus_departures comes to next
    g_early_depart,  \* SIGUSR1 received and not processed
    g_block_station  \* SIGUSR2 received; never reset

signalFlags == <<g_early_depart, g_block_station>>
dispatcherVars == <<disp_pc, disp_running, overseen, signalFlags>>

(* early, close, wake: process_signals; health, overseer, force, end: the
   checks of the main loop, force with the mutex released; shutdown: the
   section that stops the simulation; cleanup: asleep before the removal of
   the IPC resources; done: terminated.                                      *)
DispatcherPC == {"early", "close", "wake", "health", "overseer",
                 "force", "end", "shutdown", "cleanup", "done"}

DispatcherTypeOK ==
    /\ disp_pc \in DispatcherPC
    /\ disp_running \in BOOLEAN
    /\ overseen \in Nat
    /\ g_early_depart \in BOOLEAN
    /\ g_block_station \in BOOLEAN

DispatcherInit ==
    /\ disp_pc = "early"
    /\ disp_running = TRUE
    /\ overseen = 0
    /\ g_early_depart = FALSE
    /\ g_block_station = FALSE

DispatcherAt(from, to) == disp_pc = from /\ disp_pc' = to

(* The dispatcher comes to a section of SEM_SHM_MUTEX in its next step.        *)
DispatcherSection ==
    \/ disp_pc \in {"health", "overseer", "end", "shutdown"}
    \/ disp_pc = "early" /\ disp_running /\ g_early_depart
    \/ disp_pc = "close" /\ g_block_station

-----------------------------------------------------------------------------
(* kill(pid, SIGUSR1) for the drivers in a set; a zombie takes no signal.      *)
SignalDrivers(targets) ==
    g_early_departure' =
        [b \in Bus |-> g_early_departure[b] \/ (b \in targets /\ dpc[b] \notin Gone)]

(* The g_running test of the loop, then process_signals: SIGUSR1 is passed on
   to every registered driver.                                               *)
StopLoop ==
    /\ ~disp_running
    /\ DispatcherAt("early", "shutdown")
    /\ UNCHANGED <<shmVars, driverVars, disp_running, overseen, signalFlags>>

ForwardEarly ==
    /\ disp_running
    /\ DispatcherAt("early", "close")
    /\ g_early_depart' = FALSE
    /\ SignalDrivers(IF g_early_depart THEN {b \in Bus : driver_pids[b]} ELSE {})
    /\ UNCHANGED <<shmVars, dpc, d_running, was_active, request, disp_running,
                   overseen, g_block_station>>

(* SIGUSR2 closes the station to entries. boarding_allowed stays true.         *)
CloseStation ==
    /\ g_block_station /\ ~station_closed
    /\ DispatcherAt("close", "wake")
    /\ station_closed' = TRUE
    /\ station_open' = FALSE
    /\ spawning_stopped' = TRUE
    /\ UNCHANGED <<simulation_running, boarding_allowed, test_fill_queue, frozen,
                   counterVars, busVars, ipcVars, driverVars, disp_running,
                   overseen, signalFlags>>

NothingToClose ==
    /\ ~g_block_station \/ station_closed
    /\ DispatcherAt("close", "health")
    /\ UNCHANGED <<shmVars, driverVars, disp_running, overseen, signalFlags>>

(* sem_setval, outside the mutex.                                              *)
WakeBlocked ==
    /\ DispatcherAt("wake", "health")
    /\ sem' = [sem EXCEPT !["ticket_slots"] = WAKE_ALL]
    /\ UNCHANGED <<flagVars, counterVars, busVars, ticketQueues, boardingQueues,
                   ipc_exists, driverVars, disp_running, overseen, signalFlags>>

-----------------------------------------------------------------------------
(* Mutants: the watchdog takes a process that is gone for a live one; it elects
   an active bus in every round.                                             *)
SeenNoDead == {}
AlwaysOrphaned == TRUE

(* check_driver_health. A killed driver is seen dead once main has reaped it.  *)
SeenDead == {b \in Bus : driver_pids[b] /\ dpc[b] = "dead"}

Live(b) == driver_pids[b] /\ b \notin SeenDead
Orphaned == active_bus_id >= 0 /\ ~Live(active_bus_id)

(* c is the first bus at the station whose driver is alive, -1 without one.    *)
FirstLiveAtStation(c) ==
    LET found == {b \in Bus : Live(b) /\ at_station[b]}
    IN  \/ found = {} /\ c = -1
        \/ c \in found /\ \A b \in found : c <= b

CheckDriverHealth ==
    /\ DispatcherAt("health", "overseer")
    /\ driver_pids' = [b \in Bus |-> Live(b)]
    /\ \E new_active \in Bus \cup {-1} :
          /\ IF Orphaned THEN FirstLiveAtStation(new_active)
                         ELSE new_active = active_bus_id
          /\ active_bus_id' = new_active
          /\ boarding_open' = [b \in Bus |->
                  \/ Orphaned /\ b = new_active
                  \/ boarding_open[b] /\ b \notin SeenDead]
          /\ departure_time' = [b \in Bus |->
                  IF Orphaned /\ b = new_active THEN "ahead" ELSE departure_time[b]]
    /\ UNCHANGED <<flagVars, counterVars, at_station, loadVars, ipcVars,
                   driverVars, disp_running, overseen, signalFlags>>

(* check_bus_departures goes through the buses in the order of their numbers,
   one section under the mutex up to the next bus to force, which gets its
   SIGUSR1 with the mutex released: by then the bus may be gone, or loading
   again. The code reads the clock once a round, here a bus may become overdue
   until it is looked at.                                                    *)
Overdue(b) == /\ at_station[b] /\ passenger_count[b] # 0
              /\ departure_time[b] = "overdue" /\ driver_pids[b]

FindOverdue ==
    /\ DispatcherAt("overseer", "force")
    /\ overseen' \in {b \in Bus : b >= overseen /\ Overdue(b)}
    /\ \A b \in overseen .. overseen' - 1 : ~Overdue(b)
    /\ UNCHANGED <<shmVars, driverVars, disp_running, signalFlags>>

ForceDeparture ==
    /\ DispatcherAt("force", "overseer")
    /\ SignalDrivers({overseen})
    /\ overseen' = overseen + 1
    /\ UNCHANGED <<shmVars, dpc, d_running, was_active, request, disp_running,
                   signalFlags>>

OverseerDone ==
    /\ DispatcherAt("overseer", "end")
    /\ \A b \in Bus : b >= overseen => ~Overdue(b)
    /\ overseen' = 0
    /\ UNCHANGED <<shmVars, driverVars, disp_running, signalFlags>>

-----------------------------------------------------------------------------
all_buses_at_station_and_empty ==
    \A b \in Bus : at_station[b] /\ passenger_count[b] = 0 /\ entering_count[b] = 0

(* A test of main that fills the ticket queue keeps the dispatcher at work.    *)
check_simulation_end ==
    /\ ~test_fill_queue
    /\ \/ ~simulation_running
       \/ /\ spawning_stopped
          /\ passengers_waiting <= 0 /\ passengers_in_office <= 0
          /\ all_buses_at_station_and_empty

CheckSimulationEnd ==
    /\ DispatcherAt("end", IF check_simulation_end THEN "shutdown" ELSE "early")
    /\ UNCHANGED <<shmVars, driverVars, disp_running, overseen, signalFlags>>

(* Everybody recorded on a bus counts as transported, those on the road
   included, although Depart counted them before.                            *)
OnBuses == OverBuses(passenger_count)

Shutdown ==
    /\ DispatcherAt("shutdown", "cleanup")
    /\ simulation_running' = FALSE
    /\ passengers_transported' = passengers_transported + OnBuses
    /\ passenger_count' = [b \in Bus |-> 0]
    /\ UNCHANGED <<station_open, boarding_allowed, spawning_stopped,
                   station_closed, test_fill_queue, frozen, officeCounters,
                   total_passengers_created,
                   passengers_waiting, passengers_left_early, boarded_people,
                   at_station, boarding_open, bike_count, entering_count,
                   departure_time, active_bus_id, driver_pids, ipcVars,
                   driverVars, disp_running, overseen, signalFlags>>

(* ipc_cleanup_all, two seconds later: whoever is still blocked wakes up.      *)
CleanUp ==
    /\ DispatcherAt("cleanup", "done")
    /\ ipc_exists' = FALSE
    /\ UNCHANGED <<flagVars, counterVars, busVars, sem, ticketQueues,
                   boardingQueues, driverVars, disp_running, overseen,
                   signalFlags>>

-----------------------------------------------------------------------------
(* The signal handlers of the dispatcher.                                      *)
DispatcherUsr1 ==
    /\ disp_pc # "done" /\ ~g_early_depart
    /\ g_early_depart' = TRUE
    /\ UNCHANGED <<shmVars, driverVars, disp_pc, disp_running, overseen,
                   g_block_station>>

DispatcherUsr2 ==
    /\ disp_pc # "done" /\ ~g_block_station
    /\ g_block_station' = TRUE
    /\ UNCHANGED <<shmVars, driverVars, disp_pc, disp_running, overseen,
                   g_early_depart>>

DispatcherTerm ==
    /\ disp_pc # "done" /\ disp_running
    /\ disp_running' = FALSE
    /\ UNCHANGED <<shmVars, driverVars, disp_pc, overseen, signalFlags>>

DispatcherStep ==
    \/ StopLoop \/ ForwardEarly \/ CloseStation \/ NothingToClose \/ WakeBlocked
    \/ CheckDriverHealth \/ FindOverdue \/ ForceDeparture \/ OverseerDone
    \/ CheckSimulationEnd \/ Shutdown \/ CleanUp
=============================================================================
