SPECIFICATION FairUpSpec
CONSTANTS
 MAX_BUSES = 1
 BUS_CAPACITY = 2
 BIKE_CAPACITY = 1
 TICKET_OFFICES = 1
 MAX_TICKET_QUEUE_REQUESTS = 1
 MAX_BOARDING_QUEUE_REQUESTS = 1
 Passengers = {p1}
 Vips = {}
 Cyclists = {}
 Parents = {}
 NoPassenger = none
 PERF_MODE = FALSE
 FULL_DEPART = FALSE
 Events = {"close"}
CHECK_DEADLOCK FALSE
PROPERTY TicketWaitEnds
