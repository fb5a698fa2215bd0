------------------------------- MODULE Passenger -------------------------------
(* A passenger process (passenger.c): registration, ticket, station entry,     *)
(* boarding, leaving. The child of a parent is a thread of the process; here   *)
(* it only decides whether the join at the end returns.                        *)
EXTENDS CityBusShm

VARIABLES
    ppc,         \* where each passenger is in main() of passenger.c
    p_running,   \* g_running of each passenger
    has_ticket,  \* g_info.has_ticket
    boarded      \* assigned_bus after an approved response, else -1

passengerVars == <<ppc, p_running, has_ticket, boarded>>

(* Positions between two steps of the passenger:
     unborn             not forked yet
     arrive             before the check on arrival
     register           about to count itself as created
     office             about to count itself in the office
     ticket_slot        at sem_lock(SEM_TICKET_QUEUE_SLOTS)
     ticket_wait        request sent, waiting for the ticket response
     closed_check       ticket in hand, about to test station_closed
     enter, entry       before the first and the second test of station_open
     board_loop         top of the boarding loop, counted as waiting
     attempt            about to read active_bus_id
     board_slot         at sem_lock(SEM_BOARDING_QUEUE_SLOTS)
     board_wait         request sent, waiting for the boarding response
     leave              about to count itself as left early
     not_boarded        about to stop waiting and count itself as left early
     join               about to signal and join the child thread
     stranded           in the join, the child back in its wait
     gone               terminated                                           *)
PassengerPC == {"unborn", "arrive", "register", "office", "ticket_slot",
                "ticket_wait", "closed_check", "enter", "entry", "board_loop",
                "attempt", "board_slot", "board_wait", "leave", "not_boarded",
                "join", "stranded", "gone"}

PassengerTypeOK ==
    /\ ppc \in [Passengers -> PassengerPC]
    /\ p_running \in [Passengers -> BOOLEAN]
    /\ has_ticket \in [Passengers -> BOOLEAN]
    /\ boarded \in [Passengers -> Bus \cup {-1}]

PassengerInit ==
    /\ ppc = [p \in Passengers |-> "unborn"]
    /\ p_running = [p \in Passengers |-> TRUE]
    /\ has_ticket = [p \in Passengers |-> p \in Vips]
    /\ boarded = [p \in Passengers |-> -1]

PassengerAt(p, from, to) == ppc[p] = from /\ ppc' = [ppc EXCEPT ![p] = to]

(* The passenger comes to a section of SEM_SHM_MUTEX in its next step.         *)
PassengerSection(p) ==
    ppc[p] \notin {"ticket_slot", "ticket_wait", "board_slot", "board_wait",
                   "join", "stranded"}

-----------------------------------------------------------------------------
(* A passenger that comes when nobody is let in any more is not counted.       *)
Arrive(p) ==
    /\ PassengerAt(p, "arrive",
          IF simulation_running /\ station_open THEN "register" ELSE "gone")
    /\ UNCHANGED <<shmVars, p_running, has_ticket, boarded>>

(* Mutant: the child is not counted as created.                                *)
RegisterAdult(p) ==
    /\ PassengerAt(p, "register", IF p \in Vips THEN "closed_check" ELSE "office")
    /\ total_passengers_created' = total_passengers_created + 1
    /\ UNCHANGED <<flagVars, officeCounters, passengers_transported,
                   passengers_waiting, passengers_left_early, boarded_people,
                   busVars, ipcVars, p_running, has_ticket, boarded>>

Register(p) ==
    /\ PassengerAt(p, "register", IF p \in Vips THEN "closed_check" ELSE "office")
    /\ total_passengers_created' = total_passengers_created + Seats(p)
    /\ UNCHANGED <<flagVars, officeCounters, passengers_transported,
                   passengers_waiting, passengers_left_early, boarded_people,
                   busVars, ipcVars, p_running, has_ticket, boarded>>

-----------------------------------------------------------------------------
(* purchase_ticket. passengers_in_office goes up here; on the normal path the
   ticket office takes it down again.                                        *)
JoinOffice(p) ==
    /\ PassengerAt(p, "office", "ticket_slot")
    /\ passengers_in_office' = passengers_in_office + 1
    /\ UNCHANGED <<flagVars, tickets_issued, tickets_denied, rideCounters,
                   busVars, ipcVars, p_running, has_ticket, boarded>>

RequestTicket(p) ==
    /\ PassengerAt(p, "ticket_slot", "ticket_wait")
    /\ CanLock("ticket_slots")
    /\ sem' = Locked("ticket_slots")
    /\ ticket_queue' = Append(ticket_queue, p)
    /\ UNCHANGED <<flagVars, counterVars, busVars, ticket_resp, boardingQueues,
                   ipc_exists, p_running, has_ticket, boarded>>

ReceiveTicket(p) ==
    /\ ipc_exists /\ ticket_resp[p] # <<>>
    /\ ticket_resp' = [ticket_resp EXCEPT ![p] = Tail(@)]
    /\ PassengerAt(p, "ticket_wait",
          IF Head(ticket_resp[p]) THEN "closed_check" ELSE "leave")
    /\ has_ticket' = [has_ticket EXCEPT ![p] = @ \/ Head(ticket_resp[p])]
    /\ UNCHANGED <<flagVars, counterVars, busVars, sem, ticket_queue,
                   boardingQueues, ipc_exists, p_running, boarded>>

(* The semaphores or the queues were removed under the passenger.              *)
TicketRemoved(p) ==
    /\ ~ipc_exists
    /\ \/ PassengerAt(p, "ticket_slot", "leave")
       \/ PassengerAt(p, "ticket_wait", "leave")
    /\ passengers_in_office' = passengers_in_office - 1
    /\ UNCHANGED <<flagVars, tickets_issued, tickets_denied, rideCounters,
                   busVars, ipcVars, p_running, has_ticket, boarded>>

ClosedCheck(p) ==
    /\ PassengerAt(p, "closed_check", IF station_closed THEN "leave" ELSE "enter")
    /\ UNCHANGED <<shmVars, p_running, has_ticket, boarded>>

-----------------------------------------------------------------------------
(* enter_station and its loop. A station that is closed stays closed and a
   removed semaphore stays removed, so the ten attempts fail alike and stand
   here for one: the passenger gives up, or skips to the boarding loop when
   SIGTERM ends the attempts early.                                          *)
EntryFails(p, from) ==
    /\ \/ PassengerAt(p, from, "leave")
       \/ ~p_running[p] /\ PassengerAt(p, from, "board_loop")
    /\ UNCHANGED <<shmVars, p_running, has_ticket, boarded>>

FindClosed(p) == ~station_open /\ EntryFails(p, "enter")

FindOpen(p) ==
    /\ station_open
    /\ PassengerAt(p, "enter", "entry")
    /\ UNCHANGED <<shmVars, p_running, has_ticket, boarded>>

(* Mutant: the flag is not tested again.                                       *)
EnterStationUnchecked(p) ==
    /\ ipc_exists
    /\ PassengerAt(p, "entry", "board_loop")
    /\ passengers_waiting' = passengers_waiting + Seats(p)
    /\ UNCHANGED <<flagVars, officeCounters, total_passengers_created,
                   passengers_transported, passengers_left_early,
                   boarded_people, busVars, ipcVars, p_running, has_ticket,
                   boarded>>

(* The section under SEM_STATION_ENTRY and the mutex tests the flag again.     *)
EnterStation(p) ==
    /\ ipc_exists /\ station_open
    /\ PassengerAt(p, "entry", "board_loop")
    /\ passengers_waiting' = passengers_waiting + Seats(p)
    /\ UNCHANGED <<flagVars, officeCounters, total_passengers_created,
                   passengers_transported, passengers_left_early,
                   boarded_people, busVars, ipcVars, p_running, has_ticket,
                   boarded>>

EntryRefused(p) == ~(ipc_exists /\ station_open) /\ EntryFails(p, "entry")

-----------------------------------------------------------------------------
(* The boarding loop of main() and attempt_boarding.                           *)
BoardLoop(p) ==
    /\ PassengerAt(p, "board_loop",
          IF p_running[p] /\ simulation_running /\ boarding_allowed
          THEN "attempt" ELSE "not_boarded")
    /\ UNCHANGED <<shmVars, p_running, has_ticket, boarded>>

FindBus(p) ==
    /\ PassengerAt(p, "attempt",
          IF active_bus_id < 0 \/ ~boarding_allowed
          THEN "board_loop" ELSE "board_slot")
    /\ UNCHANGED <<shmVars, p_running, has_ticket, boarded>>

RequestBoarding(p) ==
    /\ PassengerAt(p, "board_slot", "board_wait")
    /\ CanLock("boarding_slots")
    /\ sem' = Locked("boarding_slots")
    /\ boarding_queue' = [boarding_queue EXCEPT ![MTypeOf(p)] =
                            Append(@, [pid |-> p, has_ticket |-> has_ticket[p]])]
    /\ UNCHANGED <<flagVars, counterVars, busVars, ticketQueues, boarding_resp,
                   ipc_exists, p_running, has_ticket, boarded>>

(* The passenger gives its slot back when it has the response. A denial of
   any kind sends it round the loop again.                                   *)
ReceiveBoarding(p) ==
    LET response == Head(boarding_resp[p])
    IN  /\ ipc_exists /\ boarding_resp[p] # <<>>
        /\ boarding_resp' = [boarding_resp EXCEPT ![p] = Tail(@)]
        /\ sem' = Unlocked("boarding_slots")
        /\ PassengerAt(p, "board_wait",
              IF response.approved THEN "join" ELSE "board_loop")
        /\ boarded' = IF response.approved
                      THEN [boarded EXCEPT ![p] = response.bus] ELSE boarded
        /\ UNCHANGED <<flagVars, counterVars, busVars, ticketQueues,
                       boarding_queue, ipc_exists, p_running, has_ticket>>

(* Mutant: msg_recv_board_resp returns when a signal interrupts it.            *)
BoardingInterrupted(p) ==
    /\ ~ipc_exists \/ ~p_running[p]
    /\ \/ PassengerAt(p, "board_slot", "board_loop")
       \/ PassengerAt(p, "board_wait", "board_loop")
    /\ UNCHANGED <<shmVars, p_running, has_ticket, boarded>>

BoardingRemoved(p) ==
    /\ ~ipc_exists
    /\ \/ PassengerAt(p, "board_slot", "board_loop")
       \/ PassengerAt(p, "board_wait", "board_loop")
    /\ UNCHANGED <<shmVars, p_running, has_ticket, boarded>>

-----------------------------------------------------------------------------
(* Leaving without having entered, and without having boarded.                 *)
Leave(p) ==
    /\ PassengerAt(p, "leave", "join")
    /\ passengers_left_early' = passengers_left_early + Seats(p)
    /\ UNCHANGED <<flagVars, officeCounters, total_passengers_created,
                   passengers_transported, passengers_waiting, boarded_people,
                   busVars, ipcVars, p_running, has_ticket, boarded>>

(* Mutant: the passenger is not counted as left.                               *)
StopWaitingUncounted(p) ==
    /\ PassengerAt(p, "not_boarded", "join")
    /\ passengers_waiting' = WaitingWithout(p)
    /\ UNCHANGED <<flagVars, officeCounters, total_passengers_created,
                   passengers_transported, passengers_left_early, boarded_people,
                   busVars, ipcVars, p_running, has_ticket, boarded>>

StopWaiting(p) ==
    /\ PassengerAt(p, "not_boarded", "join")
    /\ passengers_waiting' = WaitingWithout(p)
    /\ passengers_left_early' = passengers_left_early + Seats(p)
    /\ UNCHANGED <<flagVars, officeCounters, total_passengers_created,
                   passengers_transported, boarded_people, busVars, ipcVars,
                   p_running, has_ticket, boarded>>

(* wait_for_child_thread: its signal ends the wait of the child if the adult
   has boarded or SIGTERM came before; else the child waits again.           *)
ChildReturns(p) == p \notin Parents \/ boarded[p] # -1 \/ ~p_running[p]

Join(p) ==
    /\ PassengerAt(p, "join", IF ChildReturns(p) THEN "gone" ELSE "stranded")
    /\ UNCHANGED <<shmVars, p_running, has_ticket, boarded>>

(* Passengers that SIGTERM may end: those that may not have come to
   setup_signals yet, and those in the join, if the child happens to wake up.  *)
PassengerTermEnds ==
    {p \in Passengers : ppc[p] \in {"arrive", "stranded"} /\ p_running[p]}

(* SIGTERM or SIGINT reaches the passenger: handle_shutdown.                   *)
PassengerTerm(p) ==
    /\ ppc[p] \notin {"unborn", "gone"}
    /\ p_running[p]
    /\ p_running' = [p_running EXCEPT ![p] = FALSE]
    /\ UNCHANGED ppc \/ (p \in PassengerTermEnds /\ ppc' = [ppc EXCEPT ![p] = "gone"])
    /\ UNCHANGED <<shmVars, has_ticket, boarded>>

PassengerStep(p) ==
    \/ Arrive(p) \/ Register(p)
    \/ JoinOffice(p) \/ RequestTicket(p) \/ ReceiveTicket(p) \/ TicketRemoved(p)
    \/ ClosedCheck(p) \/ FindClosed(p) \/ FindOpen(p) \/ EnterStation(p)
    \/ EntryRefused(p)
    \/ BoardLoop(p) \/ FindBus(p) \/ RequestBoarding(p) \/ ReceiveBoarding(p)
    \/ BoardingRemoved(p)
    \/ Leave(p) \/ StopWaiting(p) \/ Join(p)
=============================================================================
