SPECIFICATION ColdCrowdSpec
CONSTANTS
 MAX_BUSES = 2
 BUS_CAPACITY = 2
 BIKE_CAPACITY = 1
 TICKET_OFFICES = 0
 MAX_TICKET_QUEUE_REQUESTS = 1
 MAX_BOARDING_QUEUE_REQUESTS = 1
 Passengers = {p1}
 Vips = {}
 Cyclists = {}
 Parents = {}
 NoPassenger = none
 PERF_MODE = FALSE
 FULL_DEPART = FALSE
 Events = {}
CHECK_DEADLOCK FALSE
INVARIANT OneReceiver
