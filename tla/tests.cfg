SPECIFICATION TestSpec
CONSTANTS
 MAX_BUSES = 1
 BUS_CAPACITY = 2
 BIKE_CAPACITY = 1
 TICKET_OFFICES = 1
 MAX_TICKET_QUEUE_REQUESTS = 1
 MAX_BOARDING_QUEUE_REQUESTS = 1
 Passengers = {p1}
 Vips = {}
 Cyclists = {}
 Parents = {p1}
 NoPassenger = none
 PERF_MODE = FALSE
 FULL_DEPART = FALSE
 Events = {}
 Tests = {0,1,2,3,4,5,6,7,8,9,10,11}
 EARLY_SIGNALS = 2
CHECK_DEADLOCK FALSE
INVARIANT TestTypeOK
INVARIANT BlockedQueuesStayEmpty
INVARIANT SlotsRestored
PROPERTY SimulationEnds
