----------------------------- MODULE TicketOffice -----------------------------
(* A ticket office process (ticket_office.c). The office's own semaphore has  *)
(* one user and ticket_office_busy, ticket_office_pids no reader outside      *)
(* reports: they are left out.                                                *)
EXTENDS CityBusShm

VARIABLES
    opc,        \* where each office is in main() of ticket_office.c
    o_running,  \* g_running of each office
    customer    \* the passenger whose request an office has taken

officeVars == <<opc, o_running, customer>>

(* top: the shutdown check; recv: blocked in msg_recv_ticket; process: request
   taken and its slot released; drain: in drain_queue_on_close.              *)
OfficePC == {"top", "recv", "process", "drain", "exit"}

OfficeTypeOK ==
    /\ opc \in [Office -> OfficePC]
    /\ o_running \in [Office -> BOOLEAN]
    /\ customer \in [Office -> Passengers \cup {NoPassenger}]

OfficeInit ==
    /\ opc = [o \in Office |-> "top"]
    /\ o_running = [o \in Office |-> TRUE]
    /\ customer = [o \in Office |-> NoPassenger]

OfficeAt(o, from, to) == opc[o] = from /\ opc' = [opc EXCEPT ![o] = to]

(* The office comes to a section of SEM_SHM_MUTEX in its next step.            *)
OfficeSection(o) == opc[o] \notin {"recv", "exit"}

-----------------------------------------------------------------------------
office_shutdown == ~simulation_running \/ station_closed

OfficeCheck(o) ==
    /\ \/ ~o_running[o] /\ OfficeAt(o, "top", "exit")
       \/ o_running[o] /\ office_shutdown /\ OfficeAt(o, "top", "drain")
       \/ o_running[o] /\ ~office_shutdown /\ OfficeAt(o, "top", "recv")
    /\ UNCHANGED <<shmVars, o_running, customer>>

(* Mutant: the slot is left to the passenger, as that of a boarding request.   *)
TakeRequestOnly(o) ==
    /\ OfficeAt(o, "recv", "process")
    /\ ipc_exists /\ ticket_queue # <<>>
    /\ customer' = [customer EXCEPT ![o] = Head(ticket_queue)]
    /\ ticket_queue' = Tail(ticket_queue)
    /\ UNCHANGED <<flagVars, counterVars, busVars, sem, ticket_resp,
                   boardingQueues, ipc_exists, o_running>>

(* The slot of the request is released here, by the office.                    *)
TakeRequest(o) ==
    /\ OfficeAt(o, "recv", "process")
    /\ ipc_exists /\ ticket_queue # <<>>
    /\ customer' = [customer EXCEPT ![o] = Head(ticket_queue)]
    /\ ticket_queue' = Tail(ticket_queue)
    /\ sem' = Unlocked("ticket_slots")
    /\ UNCHANGED <<flagVars, counterVars, busVars, ticket_resp, boardingQueues,
                   ipc_exists, o_running>>

QueueRemoved(o) ==
    /\ ~ipc_exists
    /\ OfficeAt(o, "recv", "exit")
    /\ UNCHANGED <<shmVars, o_running, customer>>

(* process_ticket_request. The ages passengers are made with are valid, so
   the denial for invalid data is unreachable.                               *)
IssueTicket(o) ==
    /\ OfficeAt(o, "process", "top")
    /\ tickets_issued' = tickets_issued + 1
    /\ passengers_in_office' = passengers_in_office - 1
    /\ ticket_resp' = Sent(ticket_resp, customer[o], TRUE)
    /\ customer' = [customer EXCEPT ![o] = NoPassenger]
    /\ UNCHANGED <<flagVars, tickets_denied, rideCounters, busVars, sem,
                   ticket_queue, boardingQueues, ipc_exists, o_running>>

(* Mutants: a passenger turned away gets no answer; it stays counted in the
   office.                                                                   *)
DrainOneUnanswered(o) ==
    /\ opc[o] = "drain"
    /\ ipc_exists /\ ticket_queue # <<>>
    /\ ticket_queue' = Tail(ticket_queue)
    /\ sem' = Unlocked("ticket_slots")
    /\ passengers_in_office' = passengers_in_office - 1
    /\ tickets_denied' = tickets_denied + 1
    /\ UNCHANGED <<flagVars, tickets_issued, rideCounters, busVars, ticket_resp,
                   boardingQueues, ipc_exists, opc, o_running, customer>>

DrainOneUncounted(o) ==
    LET p == Head(ticket_queue)
    IN  /\ opc[o] = "drain"
        /\ ipc_exists /\ ticket_queue # <<>>
        /\ ticket_queue' = Tail(ticket_queue)
        /\ sem' = Unlocked("ticket_slots")
        /\ tickets_denied' = tickets_denied + 1
        /\ ticket_resp' = Sent(ticket_resp, p, FALSE)
        /\ UNCHANGED <<flagVars, passengers_in_office, tickets_issued,
                       rideCounters, busVars, boardingQueues, ipc_exists, opc,
                       o_running, customer>>

(* drain_queue_on_close: deny whoever is queued now, then stop.                *)
DrainOne(o) ==
    LET p == Head(ticket_queue)
    IN  /\ opc[o] = "drain"
        /\ ipc_exists /\ ticket_queue # <<>>
        /\ ticket_queue' = Tail(ticket_queue)
        /\ sem' = Unlocked("ticket_slots")
        /\ passengers_in_office' = passengers_in_office - 1
        /\ tickets_denied' = tickets_denied + 1
        /\ ticket_resp' = Sent(ticket_resp, p, FALSE)
        /\ UNCHANGED <<flagVars, tickets_issued, rideCounters, busVars,
                       boardingQueues, ipc_exists, opc, o_running, customer>>

DrainDone(o) ==
    /\ OfficeAt(o, "drain", "exit")
    /\ ~ipc_exists \/ ticket_queue = <<>>
    /\ UNCHANGED <<shmVars, o_running, customer>>

(* SIGTERM or SIGINT reaches the office. Before setup_signals it ends the
   process, which otherwise stops at its first test: the same to the others. *)
OfficeTerm(o) ==
    /\ opc[o] # "exit"
    /\ o_running[o]
    /\ o_running' = [o_running EXCEPT ![o] = FALSE]
    /\ UNCHANGED <<shmVars, opc, customer>>

OfficeStep(o) ==
    \/ OfficeCheck(o) \/ TakeRequest(o) \/ QueueRemoved(o) \/ IssueTicket(o)
    \/ DrainOne(o) \/ DrainDone(o)
=============================================================================
