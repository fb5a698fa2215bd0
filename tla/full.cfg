SPECIFICATION CrowdSpec
CONSTANTS
 MAX_BUSES = 1
 BUS_CAPACITY = 3
 BIKE_CAPACITY = 1
 TICKET_OFFICES = 0
 MAX_TICKET_QUEUE_REQUESTS = 1
 MAX_BOARDING_QUEUE_REQUESTS = 3
 Passengers = {p1, p2, p3}
 Vips = {p1}
 Cyclists = {p1, p2}
 Parents = {p3}
 NoPassenger = none
 PERF_MODE = TRUE
 FULL_DEPART = TRUE
 Events = {"early", "late"}
CHECK_DEADLOCK FALSE
INVARIANT SeatsNeverOversold
INVARIANT LeavingIsLoaded
PROPERTY DepartsLoaded
