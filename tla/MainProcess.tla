----------------------------- MODULE MainProcess -----------------------------
(* The main process in its normal mode (main.c): it forks the passengers,     *)
(* reaps its children, ends the dispatcher when the books say that everybody  *)
(* is accounted for, and ends every process at last. The offices and drivers  *)
(* are forked before the first passenger; their Init stands for that.         *)
EXTENDS Passenger, TicketOffice, Dispatcher

VARIABLE mpc   \* spawn, monitor: the two loops; finish, terminate, kill: after them

MainPC == {"spawn", "monitor", "finish", "terminate", "kill", "done"}
MainTypeOK == mpc \in MainPC
MainInit == mpc = "spawn"

MainAt(from, to) == mpc = from /\ mpc' = to

(* reap_children: a killed driver stops being a zombie.                        *)
Reaped == [b \in Bus |-> IF dpc[b] = "zombie" THEN "dead" ELSE dpc[b]]

-----------------------------------------------------------------------------
(* One turn of the spawning loop. A passenger sees a stop that comes between
   the test of spawning_stopped and the fork when it arrives.                *)
SpawnPassenger(p) ==
    /\ mpc = "spawn" /\ UNCHANGED mpc
    /\ ~spawning_stopped
    /\ PassengerAt(p, "unborn", "arrive")
    /\ dpc' = Reaped
    /\ UNCHANGED <<shmVars, d_running, g_early_departure, was_active, request,
                   p_running, has_ticket, boarded, officeVars, dispatcherVars>>

(* --max_p reached, or fork failed: spawning stops, the station stays open.    *)
StopSpawning ==
    /\ \/ \A p \in Passengers : ppc[p] # "unborn"
       \/ "fork" \in Events
    /\ ~spawning_stopped
    /\ MainAt("spawn", "monitor")
    /\ spawning_stopped' = TRUE
    /\ UNCHANGED <<simulation_running, station_open, boarding_allowed,
                   station_closed, test_fill_queue, frozen, counterVars, busVars,
                   ipcVars, driverVars, passengerVars, officeVars,
                   dispatcherVars>>

SeeStop ==
    /\ MainAt("spawn", "monitor")
    /\ spawning_stopped
    /\ UNCHANGED <<shmVars, driverVars, passengerVars, officeVars, dispatcherVars>>

-----------------------------------------------------------------------------
(* The monitoring loop: the progress check, then the drain check.              *)
drain_complete ==
    /\ spawning_stopped
    /\ total_passengers_created > 0
    /\ passengers_waiting = 0 /\ passengers_in_office = 0
    /\ passengers_transported + passengers_waiting + passengers_in_office
         + OnBuses + passengers_left_early = total_passengers_created

Monitor ==
    /\ IF disp_pc = "done" \/ ~simulation_running
       THEN MainAt("monitor", "finish") /\ UNCHANGED disp_running
       ELSE /\ mpc = "monitor" /\ UNCHANGED mpc
            /\ disp_running' = (disp_running /\ ~drain_complete)
    /\ dpc' = Reaped
    /\ UNCHANGED <<shmVars, d_running, g_early_departure, was_active, request,
                   passengerVars, officeVars, disp_pc, overseen, signalFlags>>

(* SIGTERM to the dispatcher alone ...                                         *)
StopDispatcher ==
    /\ MainAt("finish", "terminate")
    /\ disp_running' = FALSE
    /\ UNCHANGED <<shmVars, driverVars, passengerVars, officeVars, disp_pc,
                   overseen, signalFlags>>

(* ... and two seconds later, in terminate_children, to all that are left ...  *)
TerminateChildren ==
    /\ MainAt("terminate", "kill")
    /\ d_running' = [b \in Bus |-> FALSE]
    /\ o_running' = [o \in Office |-> FALSE]
    /\ p_running' = [p \in Passengers |-> FALSE]
    /\ \E ended \in SUBSET DriverTermEnds :
          dpc' = [b \in Bus |-> IF b \in ended THEN "zombie" ELSE dpc[b]]
    /\ \E ended \in SUBSET PassengerTermEnds :
          ppc' = [p \in Passengers |-> IF p \in ended THEN "gone" ELSE ppc[p]]
    /\ UNCHANGED <<shmVars, g_early_departure, was_active, request, has_ticket,
                   boarded, opc, customer, dispatcherVars>>

(* ... and SIGKILL two seconds later again; then main
   removes the IPC resources if the dispatcher could not.                    *)
KillChildren ==
    /\ MainAt("kill", "done")
    /\ dpc' = [b \in Bus |-> IF dpc[b] = "gone" THEN "gone" ELSE "dead"]
    /\ ppc' = [p \in Passengers |-> IF ppc[p] = "unborn" THEN "unborn" ELSE "gone"]
    /\ opc' = [o \in Office |-> "exit"]
    /\ disp_pc' = "done"
    /\ ipc_exists' = FALSE
    /\ UNCHANGED <<flagVars, counterVars, busVars, sem, ticketQueues,
                   boardingQueues, d_running, g_early_departure, was_active,
                   request, p_running, has_ticket, boarded, o_running, customer,
                   disp_running, overseen, signalFlags>>

(* SIGINT or SIGTERM reaches main between two sections, asleep for example:
   both loops end, the dispatcher is told.                                   *)
MainTerm ==
    /\ MainAt("spawn", "finish") \/ MainAt("monitor", "finish")
    /\ disp_running' = FALSE
    /\ UNCHANGED <<shmVars, driverVars, passengerVars, officeVars, disp_pc,
                   overseen, signalFlags>>

(* Main comes to a section of SEM_SHM_MUTEX in its next step.                  *)
MainSection == mpc \in {"spawn", "monitor"}

MainStep ==
    \/ \E p \in Passengers : SpawnPassenger(p)
    \/ StopSpawning \/ SeeStop \/ Monitor \/ StopDispatcher
    \/ TerminateChildren \/ KillChildren
=============================================================================
